---- MODULE Spec2Model ----
(***************************************************************************)
(* Quality-scoring and incremental-promotion engine of the bike data       *)
(* platform: checkpointed discovery of bronze objects, scoring, the        *)
(* quality gate, promotion to silver and the gold upsert                   *)
(* (src/workflows/quality.py, src/workflows/historical.py,                 *)
(* src/prefect_flows/bike_data_platform.py).                               *)
(***************************************************************************)
EXTENDS Integers, Sequences, FiniteSets, TLC

\* ------------------------------------------------------------------ bounds
MaxClock == 1
MaxName == 2
MaxObjects == 3
MaxCalls == 2
MaxRows == 2
MaxAgg == 2
MaxFlows == 1
MaxGateRows == 10

\* ------------------------------------------------------- object-store keys
\* A bronze key is "<prefix><name><ext>": BronzeWriter writes
\* "date=.../hour=.../event_<uuid>" with ".parquet" and ".json", the historical
\* loader writes "historical/....parquet".  Strings compare lexicographically,
\* so a key is compared component by component.
Prefixes == {"date=", "historical/"}
Exts == {".json", ".parquet"}
Names == 1..MaxName
Keys == [prefix : Prefixes, name : Names, ext : Exts]
NoKey == [prefix |-> "", name |-> 0, ext |-> ""]

PrefixOrd(p) == CASE p = "" -> 0 [] p = "date=" -> 1 [] p = "historical/" -> 2
ExtOrd(e) == CASE e = "" -> 0 [] e = ".json" -> 1 [] e = ".parquet" -> 2

\* python str ">" on two keys
KeyGT(a, b) ==
    \/ PrefixOrd(a.prefix) > PrefixOrd(b.prefix)
    \/ a.prefix = b.prefix /\ a.name > b.name
    \/ a.prefix = b.prefix /\ a.name = b.name /\ ExtOrd(a.ext) > ExtOrd(b.ext)

\* python tuple "<" on (modified, key)
PairLT(a, b) ==
    \/ a.modified < b.modified
    \/ a.modified = b.modified /\ KeyGT(b.key, a.key)

EndsWithParquet(key) == key.ext = ".parquet"
StartsWithHistorical(key) == key.prefix = "historical/"

Windows == {0, 15}

Range(s) == {s[i] : i \in DOMAIN s}

\* ------------------------------------------------------------ trip records
\* A cell of a DataFrame row: a value, a missing value (None, NaN, blank
\* string or absent column: _is_missing), or a value of the wrong type for
\* its column (non-string, unparsable timestamp, non-numeric).
Ok(x) == [kind |-> "ok", v |-> x]
Missing == [kind |-> "missing", v |-> 0]
Invalid == [kind |-> "invalid", v |-> 0]

REQUIRED_FIELDS ==
    <<"trip_id", "bike_id", "start_time", "end_time", "start_station_id",
      "end_station_id", "rider_age", "trip_duration", "bike_type", "member_casual">>
ALLOWED_FIELDS == Range(REQUIRED_FIELDS) \cup {"ingested_at", "source_type"}
STRING_FIELDS == {"trip_id", "bike_type", "member_casual"}
NUMERIC_FIELDS ==
    {"bike_id", "start_station_id", "end_station_id", "rider_age", "trip_duration"}
DATETIME_FIELDS == {"start_time", "end_time"}

BASE_SCORE == 100
MAX_SPEED_KMH == 30
MIN_TRIP_DURATION == 60
MAX_TRIP_DURATION == 86400
SCHEMA_MAX_DEDUCTION == 40
VALIDITY_MAX_DEDUCTION == 40
BUSINESS_MAX_DEDUCTION == 20

\* reference/stations_reference.csv: station id -> position; the positions
\* enter the score only through the great-circle distance, kept in metres
Stations == {101, 102, 201}
HaversineMetres(a, b) ==
    IF a = b THEN 0
    ELSE IF {a, b} = {101, 102} THEN 1000
    ELSE IF {a, b} = {101, 201} THEN 4000
    ELSE 5000

Min(a, b) == IF a < b THEN a ELSE b
Max(a, b) == IF a > b THEN a ELSE b
Abs(a) == IF a < 0 THEN -a ELSE a

\* _is_missing; row.get(field) of a column the frame lacks is None
IsMissing(row, columns, field) ==
    field \notin columns \/ row[field].kind = "missing"

\* quality.py:284
MissingFields(row, columns) ==
    {f \in Range(REQUIRED_FIELDS) : IsMissing(row, columns, f)}

\* quality.py:294-321: _require_string, _parse_datetime, _coerce_number
InvalidFields(row, columns) ==
    {f \in Range(REQUIRED_FIELDS) \ MissingFields(row, columns) :
        row[f].kind = "invalid"}

\* quality.py:324
UnexpectedFields(columns) == columns \ ALLOWED_FIELDS

\* the parsed value of a required field, None (kind "missing") when the field
\* is missing or invalid
Parsed(row, columns, field) ==
    IF field \in MissingFields(row, columns) \/ row[field].kind # "ok"
    THEN Missing ELSE row[field]

IsNone(x) == x.kind # "ok"

\* a variant that also counts a missing field as wrong-typed
SchemaPenaltyMissingTwice(row, columns) ==
    Min(15 * Cardinality(MissingFields(row, columns))
          + 5 * Cardinality(InvalidFields(row, columns))
          + 2 * Cardinality(UnexpectedFields(columns)),
        SCHEMA_MAX_DEDUCTION)

\* a variant with the schema pool capped at 50
SchemaPenaltyHigherCap(row, columns) ==
    Min(10 * Cardinality(MissingFields(row, columns))
          + 5 * Cardinality(InvalidFields(row, columns))
          + 2 * Cardinality(UnexpectedFields(columns)),
        50)

\* mutant: the schema pool without its cap
SchemaPenaltyUncapped(row, columns) ==
    10 * Cardinality(MissingFields(row, columns))
      + 5 * Cardinality(InvalidFields(row, columns))
      + 2 * Cardinality(UnexpectedFields(columns))

\* quality.py:284-326
SchemaPenalty(row, columns) ==
    Min(10 * Cardinality(MissingFields(row, columns))
          + 5 * Cardinality(InvalidFields(row, columns))
          + 2 * Cardinality(UnexpectedFields(columns)),
        SCHEMA_MAX_DEDUCTION)

\* quality.py:331-333: the duration the business rules use
DurationValue(row, columns) ==
    LET start_dt == Parsed(row, columns, "start_time")
        end_dt == Parsed(row, columns, "end_time")
        duration_value == Parsed(row, columns, "trip_duration")
    IN IF ~IsNone(start_dt) /\ ~IsNone(end_dt) /\ IsNone(duration_value)
       THEN Ok(end_dt.v - start_dt.v)
       ELSE duration_value

\* quality.py:344-354
PenalizeStation(value, stations) ==
    IF IsNone(value) THEN 0
    ELSE IF stations # {} /\ value.v \notin stations THEN 10 ELSE 0

\* a variant that penalises only a start after the end
ValidityPenaltyStrictOrder(row, columns, stations) ==
    LET start_dt == Parsed(row, columns, "start_time")
        end_dt == Parsed(row, columns, "end_time")
        duration_value == Parsed(row, columns, "trip_duration")
        rider_age_value == Parsed(row, columns, "rider_age")
        order ==
            IF ~IsNone(start_dt) /\ ~IsNone(end_dt) /\ start_dt.v > end_dt.v
            THEN 25 ELSE 0
        mismatch ==
            IF /\ ~IsNone(start_dt) /\ ~IsNone(end_dt) /\ ~IsNone(duration_value)
               /\ Abs((end_dt.v - start_dt.v) - duration_value.v) > 60
            THEN 15 ELSE 0
        age ==
            IF ~IsNone(rider_age_value)
               /\ ~(16 <= rider_age_value.v /\ rider_age_value.v <= 100)
            THEN 20 ELSE 0
    IN Min(order + mismatch + age
             + PenalizeStation(Parsed(row, columns, "start_station_id"), stations)
             + PenalizeStation(Parsed(row, columns, "end_station_id"), stations),
           VALIDITY_MAX_DEDUCTION)

\* quality.py:328-358
ValidityPenalty(row, columns, stations) ==
    LET start_dt == Parsed(row, columns, "start_time")
        end_dt == Parsed(row, columns, "end_time")
        duration_value == Parsed(row, columns, "trip_duration")
        rider_age_value == Parsed(row, columns, "rider_age")
        order ==
            IF ~IsNone(start_dt) /\ ~IsNone(end_dt) /\ start_dt.v >= end_dt.v
            THEN 25 ELSE 0
        mismatch ==
            IF /\ ~IsNone(start_dt) /\ ~IsNone(end_dt) /\ ~IsNone(duration_value)
               /\ Abs((end_dt.v - start_dt.v) - duration_value.v) > 60
            THEN 15 ELSE 0
        age ==
            IF ~IsNone(rider_age_value)
               /\ ~(16 <= rider_age_value.v /\ rider_age_value.v <= 100)
            THEN 20 ELSE 0
    IN Min(order + mismatch + age
             + PenalizeStation(Parsed(row, columns, "start_station_id"), stations)
             + PenalizeStation(Parsed(row, columns, "end_station_id"), stations),
           VALIDITY_MAX_DEDUCTION)

\* _estimate_speed_kmh > MAX_SPEED_KMH: distance / (duration / 3600) > 30
\* with distance in km, i.e. metres * 3600 > 30 * 1000 * duration (both sides
\* divided by 100)
Speeding(row, columns, stations) ==
    LET a == row["start_station_id"]
        b == row["end_station_id"]
        duration == row["trip_duration"]
    IN /\ ~IsMissing(row, columns, "start_station_id") /\ a.kind = "ok"
       /\ ~IsMissing(row, columns, "end_station_id") /\ b.kind = "ok"
       /\ a.v \in stations /\ b.v \in stations
       /\ ~IsMissing(row, columns, "trip_duration") /\ duration.kind = "ok"
       /\ duration.v > 0
       /\ HaversineMetres(a.v, b.v) * 36 > MAX_SPEED_KMH * 10 * duration.v

\* _estimate_speed_kmh (quality.py:222-244) compares the raw trip_duration
\* with 0 once both stations are found in the lookup: a value that is present
\* but not a number (a string) makes the comparison raise TypeError
ScoreRowRaises(row, columns, stations) ==
    LET a == row["start_station_id"]
        b == row["end_station_id"]
    IN /\ ~IsMissing(row, columns, "start_station_id") /\ a.kind = "ok"
       /\ ~IsMissing(row, columns, "end_station_id") /\ b.kind = "ok"
       /\ a.v \in stations /\ b.v \in stations
       /\ ~IsMissing(row, columns, "trip_duration")
       /\ row["trip_duration"].kind = "invalid"

\* quality.py:360-374
BusinessPenalty(row, columns, stations) ==
    LET duration_value == DurationValue(row, columns)
        start_station_value == Parsed(row, columns, "start_station_id")
        end_station_value == Parsed(row, columns, "end_station_id")
        range ==
            IF ~IsNone(duration_value)
               /\ (duration_value.v < MIN_TRIP_DURATION
                   \/ duration_value.v > MAX_TRIP_DURATION)
            THEN 15 ELSE 0
        roundtrip ==
            IF /\ ~IsNone(duration_value)
               /\ ~IsNone(start_station_value) /\ ~IsNone(end_station_value)
               /\ start_station_value.v = end_station_value.v
               /\ duration_value.v > 3600
            THEN 5 ELSE 0
        speed == IF Speeding(row, columns, stations) THEN 10 ELSE 0
    IN Min(range + roundtrip + speed, BUSINESS_MAX_DEDUCTION)

\* mutant: the thresholds as exclusive bounds
ScoreBandExclusive(score) ==
    IF score > 90 THEN "EXCELLENT"
    ELSE IF score > 75 THEN "GOOD"
    ELSE IF score > 60 THEN "FAIR"
    ELSE "POOR"

\* _score_band, on score * 100
ScoreBand(score) ==
    IF score >= 90 THEN "EXCELLENT"
    ELSE IF score >= 75 THEN "GOOD"
    ELSE IF score >= 60 THEN "FAIR"
    ELSE "POOR"

\* mutant: the business pool left out of the total
ScoreRowNoBusiness(row, columns, stations) ==
    LET schema_penalty == SchemaPenalty(row, columns)
        validity_penalty == ValidityPenalty(row, columns, stations)
        business_penalty == BusinessPenalty(row, columns, stations)
        total_deductions == schema_penalty + validity_penalty
        normalized_score == Max(BASE_SCORE - total_deductions, 0)
    IN [quality_score |-> normalized_score,
        deductions |-> total_deductions,
        quality_band |-> ScoreBand(normalized_score),
        schema_penalty |-> schema_penalty,
        validity_penalty |-> validity_penalty,
        business_penalty |-> business_penalty]

\* _score_row; quality_score is kept times 100 (deductions are whole numbers)
ScoreRow(row, columns, stations) ==
    LET schema_penalty == SchemaPenalty(row, columns)
        validity_penalty == ValidityPenalty(row, columns, stations)
        business_penalty == BusinessPenalty(row, columns, stations)
        total_deductions == schema_penalty + validity_penalty + business_penalty
        normalized_score == Max(BASE_SCORE - total_deductions, 0)
    IN [quality_score |-> normalized_score,
        deductions |-> total_deductions,
        quality_band |-> ScoreBand(normalized_score),
        schema_penalty |-> schema_penalty,
        validity_penalty |-> validity_penalty,
        business_penalty |-> business_penalty]

\* --------------------------------------------------------------- frames
\* A DataFrame / parquet body: the column names and the rows; a row holds a
\* cell for every field, Missing where the frame has no such column.
MissingStr == [kind |-> "missing", v |-> ""]
EmptyFrame == [columns |-> {}, rows |-> <<>>]

\* pd.concat(frames, ignore_index=True): union of the columns, rows in order
RECURSIVE ConcatFrames(_)
ConcatFrames(frames) ==
    IF frames = <<>> THEN EmptyFrame
    ELSE LET rest == ConcatFrames(Tail(frames))
         IN [columns |-> Head(frames).columns \cup rest.columns,
             rows |-> Head(frames).rows \o rest.rows]

\* df.empty
FrameEmpty(df) == df.rows = <<>>

\* quality.py:264-273: the required_source_type filter ("" is no filter)
FilterSourceType(df, required_source_type) ==
    IF required_source_type = "" THEN df
    ELSE IF "source_type" \notin df.columns
    THEN [columns |-> df.columns \cup {"source_type"},
          rows |-> [i \in DOMAIN df.rows |->
                      [df.rows[i] EXCEPT !["source_type"] = Ok(required_source_type)]]]
    ELSE [columns |-> df.columns,
          rows |-> SelectSeq(df.rows,
                     LAMBDA r : r["source_type"] = Ok(required_source_type))]

ScoreColumns ==
    {"quality_score", "deductions", "quality_band", "schema_penalty",
     "validity_penalty", "business_penalty"}

\* quality.py:388-402: df.apply(_score_row, axis=1) and pd.concat([df, scores])
ScoredFrame(df, stations) ==
    [columns |-> df.columns \cup ScoreColumns,
     rows |-> [i \in DOMAIN df.rows |->
                 ScoreRow(df.rows[i], df.columns, stations) @@ df.rows[i]]]

CountRows(rows, Test(_)) == Cardinality({i \in DOMAIN rows : Test(rows[i])})

\* round(x, 4) of the ratio p / t, times 10000 (half to even)
Round4(p, t) ==
    LET q == (10000 * p) \div t
        r == (10000 * p) % t
    IN IF 2 * r > t \/ (2 * r = t /\ q % 2 = 1) THEN q + 1 ELSE q

\* quality.py:409-415; poor_share is kept times 10000
PoorShare(scored_df) ==
    IF Len(scored_df.rows) = 0 THEN 0
    ELSE Round4(CountRows(scored_df.rows, LAMBDA r : r["quality_band"] = "POOR"),
                Len(scored_df.rows))

\* quality.py:262, 275: the metrics of an empty input
\* staging/<source>_<timestamp>.parquet; NoStaging is the None reference
NoStaging == [source |-> "", ts |-> -1]
StagingKey(required_source_type, ts) ==
    [source |-> IF required_source_type = "" THEN "dataset" ELSE required_source_type,
     ts |-> ts]

EmptyMetrics == [records |-> 0, poor_share |-> 0, staging_path |-> NoStaging]

\* score_dataset on the loaded frame: the staging reference, the scored frame
\* written there and the metrics
ScoreDataset(loaded, required_source_type, ts) ==
    LET df == FilterSourceType(loaded, required_source_type)
    IN IF FrameEmpty(loaded) \/ FrameEmpty(df)
       THEN [staging_path |-> NoStaging, frame |-> EmptyFrame, metrics |-> EmptyMetrics]
       ELSE LET scored_df == ScoredFrame(df, Stations)
                staging_path == StagingKey(required_source_type, ts)
            IN [staging_path |-> staging_path,
                frame |-> scored_df,
                metrics |-> [records |-> Len(scored_df.rows),
                             poor_share |-> PoorShare(scored_df),
                             staging_path |-> staging_path]]

\* a variant that turns away a poor share of exactly 0.2
QualityGateStrict(metrics) == metrics.poor_share < 2000

\* mutant: every batch admitted
QualityGateOpen(metrics) == TRUE

\* quality_gate: poor_share <= 0.2
QualityGate(metrics) == metrics.poor_share <= 2000

\* ----------------------------------------------------- silver partitions
DateOf(t) == t \div 86400
HourOf(t) == (t % 86400) \div 3600

\* quality.py:448-452: rows whose start_time does not parse get NaT and fall
\* out of the groupby
HasPartition(r) == r["start_time"].kind = "ok"
PartitionOf(r) == [date |-> DateOf(r["start_time"].v), hour |-> HourOf(r["start_time"].v)]
PartitionLT(a, b) == a.date < b.date \/ (a.date = b.date /\ a.hour < b.hour)

\* df.groupby(["date", "hour"]): the groups in ascending key order
RECURSIVE SortPartitions(_)
SortPartitions(S) ==
    IF S = {} THEN <<>>
    ELSE LET m == CHOOSE x \in S : \A y \in S \ {x} : PartitionLT(x, y)
         IN <<m>> \o SortPartitions(S \ {m})

Partitions(df) ==
    SortPartitions({PartitionOf(df.rows[i]) : i \in {j \in DOMAIN df.rows : HasPartition(df.rows[j])}})

GroupOf(df, part) ==
    [columns |-> df.columns,
     rows |-> SelectSeq(df.rows, LAMBDA r : HasPartition(r) /\ PartitionOf(r) = part)]

\* an object store bucket: key -> body
Put(store, key, body) ==
    [k \in DOMAIN store \cup {key} |-> IF k = key THEN body ELSE store[k]]
Delete(store, key) == [k \in DOMAIN store \ {key} |-> store[k]]

\* date=<date>/hour=<hour>/silver_<date>_<hour>_<timestamp>.parquet
NoSilver == [date |-> -1, hour |-> -1, ts |-> -1]
SilverKey(part, ts) == [date |-> part.date, hour |-> part.hour, ts |-> ts]

\* quality.py:455-461: one object per (date, hour) group
RECURSIVE WriteGroups(_, _, _, _)
WriteGroups(store, df, parts, ts) ==
    IF parts = <<>> THEN store
    ELSE WriteGroups(Put(store, SilverKey(Head(parts), ts), GroupOf(df, Head(parts))),
                     df, Tail(parts), ts)

\* mutant: no df.empty guard (quality.py:445-446 left out)
PromoteToSilverUnguarded(stagingStore, silverStore, staging_path, ts) ==
    IF staging_path = NoStaging
    THEN [staging |-> stagingStore, silver |-> silverStore,
          silver_path |-> NoSilver, output_paths |-> <<>>]
    ELSE LET df == stagingStore[staging_path]
             parts == Partitions(df)
         IN [staging |-> Delete(stagingStore, staging_path),
             silver |-> WriteGroups(silverStore, df, parts, ts),
             silver_path |-> IF parts = <<>> THEN NoSilver
                             ELSE SilverKey(parts[Len(parts)], ts),
             output_paths |-> [i \in DOMAIN parts |-> SilverKey(parts[i], ts)]]

\* promote_to_silver(staging_path): the staging and silver buckets afterwards,
\* the reference returned and the partitions written
PromoteToSilver(stagingStore, silverStore, staging_path, ts) ==
    IF staging_path = NoStaging \/ FrameEmpty(stagingStore[staging_path])
    THEN [staging |-> stagingStore, silver |-> silverStore,
          silver_path |-> NoSilver, output_paths |-> <<>>]
    ELSE LET df == stagingStore[staging_path]
             parts == Partitions(df)
         IN [staging |-> Delete(stagingStore, staging_path),
             silver |-> WriteGroups(silverStore, df, parts, ts),
             silver_path |-> IF parts = <<>> THEN NoSilver
                             ELSE SilverKey(parts[Len(parts)], ts),
             output_paths |-> [i \in DOMAIN parts |-> SilverKey(parts[i], ts)]]

\* ------------------------------------------------------------ gold tables
RECURSIVE Gcd(_, _)
Gcd(a, b) == IF b = 0 THEN a ELSE Gcd(b, a % b)
\* a mean, as a reduced fraction
Frac(num, den) ==
    LET g == Gcd(num, den)
    IN IF g = 0 THEN [num |-> 0, den |-> 1] ELSE [num |-> num \div g, den |-> den \div g]

RECURSIVE SumOver(_, _)
SumOver(rows, col) ==
    IF rows = <<>> THEN 0 ELSE Head(rows)[col] + SumOver(Tail(rows), col)

SourceOrd(src) ==
    CASE src = "historical" -> 1 [] src = "realtime" -> 2 [] src = "unknown" -> 3

\* comparison of two rows on index_cols = [source_type, key]
IndexLT(a, b, index_cols) ==
    \/ SourceOrd(a[index_cols[1]]) < SourceOrd(b[index_cols[1]])
    \/ a[index_cols[1]] = b[index_cols[1]] /\ a[index_cols[2]] < b[index_cols[2]]
IndexEq(a, b, index_cols) == \A i \in DOMAIN index_cols : a[index_cols[i]] = b[index_cols[i]]

\* DataFrame.sort_values(index_cols): a stable sort (lexsort on several columns)
RECURSIVE InsertSorted(_, _, _)
InsertSorted(row, sorted, index_cols) ==
    IF sorted = <<>> THEN <<row>>
    ELSE IF IndexLT(row, Head(sorted), index_cols)
    THEN <<row>> \o sorted
    ELSE <<Head(sorted)>> \o InsertSorted(row, Tail(sorted), index_cols)

RECURSIVE SortValues(_, _)
SortValues(rows, index_cols) ==
    IF rows = <<>> THEN <<>>
    ELSE InsertSorted(rows[Len(rows)],
                      SortValues(SubSeq(rows, 1, Len(rows) - 1), index_cols),
                      index_cols)

\* mutant: duplicates are not dropped
KeepDuplicates(rows, index_cols) == rows

\* DataFrame.drop_duplicates(subset=index_cols, keep="last")
RECURSIVE DropDuplicates(_, _)
DropDuplicates(rows, index_cols) ==
    IF rows = <<>> THEN <<>>
    ELSE IF \E j \in 2..Len(rows) : IndexEq(rows[1], rows[j], index_cols)
    THEN DropDuplicates(Tail(rows), index_cols)
    ELSE <<Head(rows)>> \o DropDuplicates(Tail(rows), index_cols)

\* mutant: the new rollup is appended to the stored table
UpsertAppend(existing, new_df, index_cols) == existing \o new_df

\* a variant that keeps, of the stored table, only the rows of the source
\* types of the new rollup
UpsertSameSourceOnly(existing, new_df, index_cols) ==
    DropDuplicates(
        SortValues(SelectSeq(existing, LAMBDA r :
                       \E j \in DOMAIN new_df : new_df[j].source_type = r.source_type)
                     \o new_df, index_cols),
        index_cols)

\* mutant: the stored table is replaced by the new rollup
UpsertOverwrite(existing, new_df, index_cols) == new_df

\* update_gold_tables._upsert: the table that is written back
Upsert(existing, new_df, index_cols) ==
    DropDuplicates(SortValues(existing \o new_df, index_cols), index_cols)

\* quality.py:476: df.get("source_type", "unknown")
SourceTypeOf(df, r) ==
    IF "source_type" \in df.columns THEN r["source_type"] ELSE Ok("unknown")

\* the (source_type, key) groups of a groupby, NaN keys dropped, in key order
RECURSIVE SortGroupKeys(_)
SortGroupKeys(S) ==
    IF S = {} THEN <<>>
    ELSE LET m == CHOOSE x \in S : \A y \in S \ {x} :
                    \/ SourceOrd(x[1]) < SourceOrd(y[1])
                    \/ x[1] = y[1] /\ x[2] < y[2]
         IN <<m>> \o SortGroupKeys(S \ {m})

\* the grouping key of a row: start_station_id, hour floor or date
StationKey(r) == r["start_station_id"]
HourKey(r) ==
    IF r["start_time"].kind = "ok"
    THEN Ok((r["start_time"].v \div 3600) * 3600) ELSE Missing
DateKey(r) ==
    IF r["start_time"].kind = "ok" THEN Ok(DateOf(r["start_time"].v)) ELSE Missing

GroupKeys(df, KeyOf(_)) ==
    SortGroupKeys({<<SourceTypeOf(df, df.rows[i]).v, KeyOf(df.rows[i]).v>> :
        i \in {j \in DOMAIN df.rows :
                 /\ SourceTypeOf(df, df.rows[j]).kind = "ok"
                 /\ KeyOf(df.rows[j]).kind = "ok"}})

GroupRows(df, KeyOf(_), gk) ==
    SelectSeq(df.rows, LAMBDA r :
        /\ SourceTypeOf(df, r) = Ok(gk[1])
        /\ KeyOf(r) = Ok(gk[2]))

\* quality.py:491-495
StationStatus(df) ==
    LET keys == GroupKeys(df, StationKey)
    IN [i \in DOMAIN keys |->
          LET g == GroupRows(df, StationKey, keys[i])
          IN [source_type |-> keys[i][1],
              start_station_id |-> keys[i][2],
              trips_started |-> CountRows(g, LAMBDA r : r["trip_id"].kind # "missing"),
              avg_quality |-> Frac(SumOver(g, "quality_score"), Len(g))]]

\* quality.py:496-501
HourlyUsage(df) ==
    LET keys == GroupKeys(df, HourKey)
    IN [i \in DOMAIN keys |->
          LET g == GroupRows(df, HourKey, keys[i])
          IN [source_type |-> keys[i][1],
              hour |-> keys[i][2],
              trips |-> CountRows(g, LAMBDA r : r["trip_id"].kind # "missing"),
              avg_quality |-> Frac(SumOver(g, "quality_score"), Len(g))]]

\* quality.py:502-510
QualityTrend(df) ==
    LET keys == GroupKeys(df, DateKey)
    IN [i \in DOMAIN keys |->
          LET g == GroupRows(df, DateKey, keys[i])
          IN [source_type |-> keys[i][1],
              date |-> keys[i][2],
              mean_quality |-> Frac(SumOver(g, "quality_score"), Len(g)),
              poor_share |-> Frac(CountRows(g, LAMBDA r : r["quality_band"] = "POOR"),
                                  Len(g))]]

EmptyGold == [station_status |-> <<>>, hourly_usage |-> <<>>, quality_trends |-> <<>>]

\* update_gold_tables on the frame read from silver_file: the three tables
\* after the three upserts (a missing table reads as empty)
GoldAfter(tables, df) ==
    IF FrameEmpty(df) THEN tables
    ELSE [station_status |->
            Upsert(tables.station_status, StationStatus(df),
                   <<"source_type", "start_station_id">>),
          hourly_usage |->
            Upsert(tables.hourly_usage, HourlyUsage(df), <<"source_type", "hour">>),
          quality_trends |->
            Upsert(tables.quality_trends, QualityTrend(df), <<"source_type", "date">>)]

\* ------------------------------------------------------- trips that occur
\* a trip as the ingestion API accepts it (TripEvent: every field present and
\* typed, rider_age in 12..110, trip_duration > 0); no source_type column
Trip(id, start, end, s1, s2, age, dur) ==
    [trip_id |-> Ok(id), bike_id |-> Ok(7), start_time |-> Ok(start),
     end_time |-> Ok(end), start_station_id |-> Ok(s1), end_station_id |-> Ok(s2),
     rider_age |-> Ok(age), trip_duration |-> Ok(dur), bike_type |-> Ok(1),
     member_casual |-> Ok(1), ingested_at |-> Ok(0), source_type |-> MissingStr]

\* day 0 08:00, stations 101 -> 102, clean: EXCELLENT
TripA == Trip(1, 28800, 29100, 101, 102, 28, 300)
\* a second clean trip of the same hour and start station
TripA2 == Trip(5, 28860, 29160, 101, 102, 30, 300)
\* day 0 08:00, start = end, age 110, 30 s: POOR
TripB == Trip(2, 28800, 28800, 102, 101, 110, 30)
\* day 0 09:00, 4 km in 300 s: EXCELLENT (90)
TripC == Trip(3, 32400, 32700, 101, 201, 28, 300)
\* day 1 08:00, unknown end station, age 12: FAIR
TripD == Trip(4, 115200, 115800, 102, 999, 12, 600)
\* a historical row without start station (NaN after normalization)
TripE == [Trip(6, 28800, 29100, 101, 102, 28, 300) EXCEPT !["start_station_id"] = Missing]

RealtimeTrips == {TripA, TripA2, TripB, TripC, TripD}
HistoricalTrips == RealtimeTrips \cup {TripE}

RealtimeColumns == Range(REQUIRED_FIELDS) \cup {"ingested_at"}
HistoricalColumns == Range(REQUIRED_FIELDS) \cup {"ingested_at", "source_type"}

\* the frame of a bronze object: an API event file (source ""), or a file of
\* the historical loader, whose rows are tagged source_type = "historical"
BronzeFrame(source, trips) ==
    IF source = "historical"
    THEN [columns |-> HistoricalColumns,
          rows |-> [i \in DOMAIN trips |->
                      [trips[i] EXCEPT !["source_type"] = Ok("historical")]]]
    ELSE [columns |-> RealtimeColumns, rows |-> trips]

\* sequences of 1..n elements of S
SeqsUpTo(S, n) == UNION {[1..k -> S] : k \in 1..n}

SamePartition(trips) ==
    \A i, j \in DOMAIN trips : PartitionOf(trips[i]) = PartitionOf(trips[j])

\* the partition files promote_to_silver can write: scored rows of one
\* (date, hour), all realtime (no source_type column) or all historical
SilverFiles ==
    {ScoredFrame(BronzeFrame("", t), Stations) :
        t \in {x \in SeqsUpTo(RealtimeTrips, MaxRows) : SamePartition(x)}}
    \cup
    {ScoredFrame(BronzeFrame("historical", t), Stations) :
        t \in {x \in SeqsUpTo(HistoricalTrips, MaxRows) : SamePartition(x)}}

VARIABLES
    now,            \* the object store's clock, in LastModified resolution
    bronze,         \* bronze bucket: set of [key, modified]
    checkpoint,     \* gold/control/realtime_checkpoint.json
    calls,          \* number of discover_new_data calls completed
    lastRead,       \* checkpoint read by the latest discover_new_data call
    lastFiles,      \* list returned by the latest call, as (modified, key) pairs
    listed,         \* keys that were in the bucket when some call listed it
    timesReturned,  \* key -> number of calls that returned it
    pc,             \* interleaved discovery: run -> position in discover_new_data
    runCheckpoint,  \* run -> the checkpoint it read (quality.py:94)
    runDiscovered,  \* run -> its sorted discovered list (quality.py:114)
    gold,           \* gold bucket: station_status, hourly_usage, quality_trends
    aggregated,     \* the distinct silver frames update_gold_tables has read
    aggCount,       \* number of update_gold_tables calls
    bodies,         \* bronze bucket: key -> frame of the object
    staging,        \* silver bucket, staging/ prefix: key -> scored frame
    silver,         \* silver bucket, date=/hour= partitions: key -> frame
    reports,        \* gold bucket, reports/: timestamps of the reports written
    fpc,            \* bike_realtime_quality: position of the run, or its status
    flowFiles,      \* the run's discovered files
    flowMetrics,    \* the run's metrics (payload of calculate_quality_scores)
    flowSilverPath, \* the run's silver_path
    flowWritten,    \* silver objects the run wrote
    flowAggregated, \* the frame the run's update_gold_tables read
    crashedKeys,    \* bronze keys of runs that stopped before the gold update
    processedKeys,  \* bronze keys of runs that reached the gold update
    manifest,       \* historical bucket, manifest.json: archive name -> entry
    pending,        \* historical bucket, pending/: staged key -> dataset
    processed,      \* historical bucket, processed/: staged key -> dataset
    hpc,            \* bike_batch_historical: position of the run
    histRuns,       \* number of bike_batch_historical runs started
    histValid,      \* the run's valid_files
    histBronze,     \* the run's bronze_files
    histMetrics,    \* the metrics of the run's score_dataset
    histWritten,    \* silver objects the run wrote
    histAggregated, \* the frame the run's update_gold_tables read
    wpc,            \* concurrent update_gold_tables: writer -> position
    wdf,            \* writer -> the silver frame it read (quality.py:471)
    wread,          \* writer -> the table its current _upsert read
    overlapped,     \* some writer started while the other was running
    manifestOk,     \* the latest _load_archive_manifest read the stored document
    readFailures,   \* number of manifest reads that failed
    histInvalid,    \* invalid_archives of the latest validate_historical_batches
    histStaged,     \* archives staged by the latest validate_historical_batches
    stagings,       \* archive -> number of staged objects written for it so far
    histFailing,    \* archives whose _stage_archive raises in the latest validate
    histCancelled,  \* archive whose _stage_archive was cancelled in flight
    hcpc,           \* interleaved bike_batch_historical: run -> position
    hcManifest,     \* run -> the manifest its current task loaded and updates
    hcListed,       \* run -> pending_existing of its validate (historical.py:292)
    hcValid,        \* run -> its valid_files
    hcBronze,       \* run -> its bronze_files
    pArg,           \* staging_path of the latest promote_to_silver call
    pRef,           \* the reference that call returned
    pPaths,         \* output_paths of that call
    pCalls,         \* number of promote_to_silver calls
    lastBatch,      \* the silver frame of an update_gold_tables call to be repeated
    sFiles,         \* the frames of the files a score_dataset call loaded
    sOut,           \* the scored frame of that call
    sRaised         \* that call raised an exception

storeVars == <<now, bronze, checkpoint>>
discVars == <<calls, lastRead, lastFiles, listed, timesReturned>>
runVars == <<pc, runCheckpoint, runDiscovered>>
goldVars == <<gold, aggregated, aggCount>>
flowVars ==
    <<bodies, staging, silver, reports, fpc, flowFiles, flowMetrics, flowSilverPath,
      flowWritten, flowAggregated, crashedKeys, processedKeys>>
histVars ==
    <<manifest, pending, processed, hpc, histRuns, histValid, histBronze, histMetrics,
      histWritten, histAggregated>>
concVars == <<wpc, wdf, wread, overlapped>>
manVars == <<manifestOk, readFailures, histInvalid, histStaged, stagings,
             histFailing, histCancelled>>
histConcVars == <<hcpc, hcManifest, hcListed, hcValid, hcBronze>>
promVars == <<pArg, pRef, pPaths, pCalls>>
scoreVars == <<sFiles, sOut, sRaised>>
vars ==
    <<storeVars, discVars, runVars, goldVars, flowVars, histVars, concVars, manVars,
      histConcVars, promVars, lastBatch, scoreVars>>

Writers == {1, 2}

\* the archives of the remote index, sorted by name (historical.py:98); the
\* slug of an archive is written as its name
Archives == <<201301, 201302, 201303>>
NoArchive == 0
ArchiveNames == Range(Archives)

Runs == {1, 2}

\* ------------------------------------------------------------- checkpoint
NoCheckpoint == [stored |-> FALSE, last_modified |-> 0, last_key |-> NoKey]

\* _load_realtime_checkpoint: (None, "") when the object is missing
LoadRealtimeCheckpoint(cp) ==
    IF ~cp.stored
    THEN [checkpoint_time |-> -1, checkpoint_key |-> NoKey]
    ELSE [checkpoint_time |-> cp.last_modified, checkpoint_key |-> cp.last_key]

\* _persist_realtime_checkpoint: the whole document is overwritten
PersistRealtimeCheckpoint(last_modified, last_key) ==
    [stored |-> TRUE, last_modified |-> last_modified, last_key |-> last_key]

\* checkpoint_time is None
NoTime(t) == t = -1

\* a variant that takes nothing as new when no checkpoint time was loaded
IsNewOnlyWithCheckpoint(obj, cp) ==
    IF ~NoTime(cp.checkpoint_time)
    THEN \/ obj.modified > cp.checkpoint_time
         \/ obj.modified = cp.checkpoint_time /\ KeyGT(obj.key, cp.checkpoint_key)
    ELSE FALSE

\* mutant: the comparison with the checkpoint reversed
IsNewReversed(obj, cp) ==
    IF ~NoTime(cp.checkpoint_time)
    THEN \/ obj.modified < cp.checkpoint_time
         \/ obj.modified = cp.checkpoint_time /\ KeyGT(cp.checkpoint_key, obj.key)
    ELSE TRUE

\* mutant: the key tie-break not strict (key >= checkpoint_key)
IsNewNotStrict(obj, cp) ==
    IF ~NoTime(cp.checkpoint_time)
    THEN \/ obj.modified > cp.checkpoint_time
         \/ obj.modified = cp.checkpoint_time /\ ~KeyGT(cp.checkpoint_key, obj.key)
    ELSE TRUE

\* quality.py:104-110
IsNew(obj, cp) ==
    IF ~NoTime(cp.checkpoint_time)
    THEN \/ obj.modified > cp.checkpoint_time
         \/ obj.modified = cp.checkpoint_time /\ KeyGT(obj.key, cp.checkpoint_key)
    ELSE TRUE

\* quality.py:98-112: the listing loop
Discovered(bucket, cp) ==
    {obj \in bucket :
        /\ ~(~EndsWithParquet(obj.key) \/ StartsWithHistorical(obj.key))
        /\ IsNew(obj, cp)}

\* a variant that sorts newest first
RECURSIVE SortPairsDescending(_)
SortPairsDescending(S) ==
    IF S = {} THEN <<>>
    ELSE LET m == CHOOSE x \in S : \A y \in S \ {x} : PairLT(y, x)
         IN <<m>> \o SortPairsDescending(S \ {m})

\* list.sort(key=(modified, key))
RECURSIVE SortPairs(_)
SortPairs(S) ==
    IF S = {} THEN <<>>
    ELSE LET m == CHOOSE x \in S : \A y \in S \ {x} : PairLT(x, y)
         IN <<m>> \o SortPairs(S \ {m})

Last(s) == s[Len(s)]

\* a variant that rewrites the checkpoint even when nothing was discovered
CheckpointAfterAlways(cp, discovered) ==
    IF discovered # <<>>
    THEN PersistRealtimeCheckpoint(Last(discovered).modified, Last(discovered).key)
    ELSE PersistRealtimeCheckpoint(0, NoKey)

\* quality.py:119-121
CheckpointAfter(cp, discovered) ==
    IF discovered # <<>>
    THEN PersistRealtimeCheckpoint(Last(discovered).modified, Last(discovered).key)
    ELSE cp

Init ==
    /\ now = 0
    /\ bronze = {}
    /\ checkpoint = NoCheckpoint
    /\ calls = 0
    /\ lastRead = LoadRealtimeCheckpoint(NoCheckpoint)
    /\ lastFiles = <<>>
    /\ listed = {}
    /\ timesReturned = [k \in Keys |-> 0]
    /\ pc = [r \in Runs |-> "idle"]
    /\ runCheckpoint = [r \in Runs |-> LoadRealtimeCheckpoint(NoCheckpoint)]
    /\ runDiscovered = [r \in Runs |-> <<>>]
    /\ gold = EmptyGold
    /\ aggregated = {}
    /\ aggCount = 0
    /\ bodies = <<>>
    /\ staging = <<>>
    /\ silver = <<>>
    /\ reports = {}
    /\ fpc = "idle"
    /\ flowFiles = <<>>
    /\ flowMetrics = EmptyMetrics
    /\ flowSilverPath = NoSilver
    /\ flowWritten = <<>>
    /\ flowAggregated = EmptyFrame
    /\ crashedKeys = {}
    /\ processedKeys = {}
    /\ manifest = <<>>
    /\ pending = <<>>
    /\ processed = <<>>
    /\ hpc = "idle"
    /\ histRuns = 0
    /\ histValid = <<>>
    /\ histBronze = <<>>
    /\ histMetrics = EmptyMetrics
    /\ histWritten = <<>>
    /\ histAggregated = EmptyFrame
    /\ wpc = [w \in Writers |-> [at |-> "idle", table |-> 0]]
    /\ wdf = [w \in Writers |-> EmptyFrame]
    /\ wread = [w \in Writers |-> <<>>]
    /\ overlapped = FALSE
    /\ manifestOk = TRUE
    /\ readFailures = 0
    /\ histInvalid = <<>>
    /\ histStaged = <<>>
    /\ histFailing = {}
    /\ histCancelled = NoArchive
    /\ stagings = [a \in ArchiveNames |-> 0]
    /\ hcpc = [r \in Runs |-> "idle"]
    /\ hcManifest = [r \in Runs |-> <<>>]
    /\ hcListed = [r \in Runs |-> {}]
    /\ hcValid = [r \in Runs |-> <<>>]
    /\ hcBronze = [r \in Runs |-> <<>>]
    /\ pArg = NoStaging
    /\ pRef = NoSilver
    /\ pPaths = <<>>
    /\ pCalls = 0
    /\ lastBatch = EmptyFrame
    /\ sFiles = <<>>
    /\ sOut = EmptyFrame
    /\ sRaised = FALSE

\* the object store's clock advances
Tick ==
    /\ now < MaxClock
    /\ now' = now + 1
    /\ UNCHANGED histVars
    /\ UNCHANGED concVars
    /\ UNCHANGED histConcVars
    /\ UNCHANGED promVars
    /\ UNCHANGED lastBatch
    /\ UNCHANGED scoreVars
    /\ UNCHANGED manVars
    /\ UNCHANGED <<bronze, checkpoint, discVars, runVars, goldVars, flowVars>>

\* put_object of a new bronze object (BronzeWriter.persist_event, or a bronze
\* write of the historical loader): LastModified is the store's clock
PutBronze ==
    /\ Cardinality(bronze) < MaxObjects
    /\ \E key \in Keys :
        /\ \A o \in bronze : o.key # key
        /\ bronze' = bronze \cup {[key |-> key, modified |-> now]}
    /\ UNCHANGED histVars
    /\ UNCHANGED concVars
    /\ UNCHANGED histConcVars
    /\ UNCHANGED promVars
    /\ UNCHANGED lastBatch
    /\ UNCHANGED scoreVars
    /\ UNCHANGED manVars
    /\ UNCHANGED <<now, checkpoint, discVars, runVars, goldVars, flowVars>>

\* discover_new_data(window_minutes): what one call does to the store and
\* what it returns (lastFiles)
Discover(window_minutes) ==
    LET cp == LoadRealtimeCheckpoint(checkpoint)
        lookback_cutoff == now - window_minutes
        discovered == SortPairs(Discovered(bronze, cp))
    IN /\ checkpoint' = CheckpointAfter(checkpoint, discovered)
       /\ lastRead' = cp
       /\ lastFiles' = discovered
       /\ listed' = listed \cup {o.key : o \in bronze}
       /\ timesReturned' =
            [k \in Keys |->
                IF \E o \in Range(discovered) : o.key = k
                THEN timesReturned[k] + 1 ELSE timesReturned[k]]
       /\ calls' = calls + 1

\* discover_new_data(window_minutes), run to completion
DiscoverNewData ==
    /\ calls < MaxCalls
    /\ \E window_minutes \in Windows : Discover(window_minutes)
    /\ UNCHANGED histVars
    /\ UNCHANGED concVars
    /\ UNCHANGED histConcVars
    /\ UNCHANGED promVars
    /\ UNCHANGED lastBatch
    /\ UNCHANGED scoreVars
    /\ UNCHANGED manVars
    /\ UNCHANGED <<now, bronze, runVars, goldVars, flowVars>>

Next == Tick \/ PutBronze \/ DiscoverNewData

Spec == Init /\ [][Next]_vars

\* ------------------------------------------------ discovery: the claims
RealtimeParquet(key) == EndsWithParquet(key) /\ ~StartsWithHistorical(key)

\* C1: every non-historical .parquet bronze object is returned by exactly one
\* discover_new_data call: never by two, and once a call has listed the bucket
\* with the object in it, the object has been returned.
C1_ReturnedExactlyOnce ==
    \A o \in bronze :
        RealtimeParquet(o.key) =>
            /\ timesReturned[o.key] <= 1
            /\ (o.key \in listed => timesReturned[o.key] = 1)

CheckpointPair(cp) == [modified |-> cp.checkpoint_time, key |-> cp.checkpoint_key]

\* C2: when a checkpoint exists, every object discover_new_data returns is a
\* bronze object outside historical/ whose (LastModified, key) is strictly
\* greater than the checkpoint read at the start of the call.
C2_ReturnedNewerThanCheckpoint ==
    ~NoTime(lastRead.checkpoint_time) =>
        \A i \in DOMAIN lastFiles :
            /\ lastFiles[i] \in bronze
            /\ ~StartsWithHistorical(lastFiles[i].key)
            /\ PairLT(CheckpointPair(lastRead), lastFiles[i])

C2_Witness ==
    /\ calls >= 2
    /\ ~NoTime(lastRead.checkpoint_time)
    /\ Len(lastFiles) >= 1
    /\ \E o \in bronze : RealtimeParquet(o.key) /\ ~PairLT(CheckpointPair(lastRead), o)
    /\ \E o \in bronze : StartsWithHistorical(o.key)

StoredPair(cp) == [modified |-> cp.last_modified, key |-> cp.last_key]

\* C3: the stored checkpoint (last_modified, last_key) never decreases in
\* lexicographic order over sequential discover_new_data calls and arrivals.
C3_CheckpointNeverRolledBack ==
    [][checkpoint.stored =>
        /\ checkpoint'.stored
        /\ ~PairLT(StoredPair(checkpoint'), StoredPair(checkpoint))]_vars

C3_Witness ==
    /\ checkpoint.stored
    /\ ~NoTime(lastRead.checkpoint_time)
    /\ PairLT(CheckpointPair(lastRead), StoredPair(checkpoint))
    /\ \E o \in bronze : RealtimeParquet(o.key) /\ PairLT(o, StoredPair(checkpoint))

\* --------------------------------------- discovery: two interleaved runs
\* quality.py:94
RunLoad(r) ==
    /\ pc[r] \in {"idle", "done"}
    /\ calls < MaxCalls
    /\ pc' = [pc EXCEPT ![r] = "loaded"]
    /\ runCheckpoint' = [runCheckpoint EXCEPT ![r] = LoadRealtimeCheckpoint(checkpoint)]
    /\ runDiscovered' = [runDiscovered EXCEPT ![r] = <<>>]
    /\ UNCHANGED histVars
    /\ UNCHANGED concVars
    /\ UNCHANGED histConcVars
    /\ UNCHANGED promVars
    /\ UNCHANGED lastBatch
    /\ UNCHANGED scoreVars
    /\ UNCHANGED manVars
    /\ UNCHANGED <<storeVars, discVars, goldVars, flowVars>>

\* quality.py:96-114
RunList(r) ==
    /\ pc[r] = "loaded"
    /\ pc' = [pc EXCEPT ![r] = "listed"]
    /\ runDiscovered' =
        [runDiscovered EXCEPT ![r] = SortPairs(Discovered(bronze, runCheckpoint[r]))]
    /\ UNCHANGED histVars
    /\ UNCHANGED concVars
    /\ UNCHANGED histConcVars
    /\ UNCHANGED promVars
    /\ UNCHANGED lastBatch
    /\ UNCHANGED scoreVars
    /\ UNCHANGED manVars
    /\ UNCHANGED <<storeVars, discVars, runCheckpoint, goldVars, flowVars>>

\* quality.py:119-122
RunPersist(r) ==
    /\ pc[r] = "listed"
    /\ pc' = [pc EXCEPT ![r] = "done"]
    /\ checkpoint' = CheckpointAfter(checkpoint, runDiscovered[r])
    /\ calls' = calls + 1
    /\ UNCHANGED histVars
    /\ UNCHANGED concVars
    /\ UNCHANGED histConcVars
    /\ UNCHANGED promVars
    /\ UNCHANGED lastBatch
    /\ UNCHANGED scoreVars
    /\ UNCHANGED manVars
    /\ UNCHANGED <<now, bronze, lastRead, lastFiles, listed, timesReturned,
                   runCheckpoint, runDiscovered, goldVars, flowVars>>

NextConc ==
    \/ Tick
    \/ PutBronze
    \/ \E r \in Runs : RunLoad(r)
    \/ \E r \in Runs : RunList(r)
    \/ \E r \in Runs : RunPersist(r)

SpecConc == Init /\ [][NextConc]_vars

\* C4: with two interleaved discover_new_data runs, the stored checkpoint is
\* never below the value a finished run computed and wrote: no run overwrites
\* a larger stored checkpoint with a smaller one.
C4_StoredCheckpointIsMaximum ==
    \A r \in Runs :
        (pc[r] = "done" /\ runDiscovered[r] # <<>>) =>
            ~PairLT(StoredPair(checkpoint), Last(runDiscovered[r]))

\* ------------------------------------------------------ gold aggregation
\* update_gold_tables(silver_file), run to completion; "" is the empty
\* reference (quality.py:469)
UpdateGoldTables ==
    /\ aggCount < MaxAgg
    /\ \/ \E df \in SilverFiles :
            /\ gold' = GoldAfter(gold, df)
            /\ aggregated' = aggregated \cup {df}
       \/ UNCHANGED <<gold, aggregated>>
    /\ aggCount' = aggCount + 1
    /\ UNCHANGED histVars
    /\ UNCHANGED concVars
    /\ UNCHANGED histConcVars
    /\ UNCHANGED promVars
    /\ UNCHANGED lastBatch
    /\ UNCHANGED scoreVars
    /\ UNCHANGED manVars
    /\ UNCHANGED <<storeVars, discVars, runVars, flowVars>>

NextGold == UpdateGoldTables

SpecGold == Init /\ [][NextGold]_vars

RECURSIVE SumTrips(_, _)
\* the trips with (source_type, start station) = key over a set of frames
SumTrips(frames, key) ==
    IF frames = {} THEN 0
    ELSE LET df == CHOOSE f \in frames : TRUE
         IN CountRows(GroupRows(df, StationKey, key),
                      LAMBDA r : r["trip_id"].kind # "missing")
            + SumTrips(frames \ {df}, key)

\* C9: the gold row of every (source_type, key) reflects all silver batches
\* ever aggregated that contain the key: trips_started of a station_status row
\* is the number of trips of that key over every aggregated batch.
C9_GoldMergesAllBatches ==
    \A i \in DOMAIN gold.station_status :
        LET row == gold.station_status[i]
        IN row.trips_started =
             SumTrips(aggregated, <<row.source_type, row.start_station_id>>)

UniqueKeys(rows, index_cols) ==
    \A i, j \in DOMAIN rows : i # j => ~IndexEq(rows[i], rows[j], index_cols)

\* C10: after any sequence of update_gold_tables calls each of the three gold
\* tables holds at most one row per (source_type, key).
C10_OneRowPerKey ==
    /\ UniqueKeys(gold.station_status, <<"source_type", "start_station_id">>)
    /\ UniqueKeys(gold.hourly_usage, <<"source_type", "hour">>)
    /\ UniqueKeys(gold.quality_trends, <<"source_type", "date">>)

\* two batches with a common key were aggregated, and the tables hold
\* several rows
C10_Witness ==
    /\ aggCount = 2
    /\ Cardinality(aggregated) = 2
    /\ \E f, g \in aggregated :
        /\ f # g
        /\ \E i \in DOMAIN f.rows, j \in DOMAIN g.rows :
            /\ SourceTypeOf(f, f.rows[i]) = SourceTypeOf(g, g.rows[j])
            /\ StationKey(f.rows[i]) = StationKey(g.rows[j])
            /\ StationKey(f.rows[i]).kind = "ok"
    /\ Len(gold.station_status) >= 2
    /\ Len(gold.hourly_usage) >= 1
    /\ Len(gold.quality_trends) >= 1

\* update_gold_tables(silver_file) on a partition file, by a task that will
\* be run again on the same file (the history of aggregated frames is not
\* kept here)
RerunFirst ==
    /\ aggCount < MaxAgg
    /\ FrameEmpty(lastBatch)
    /\ \E df \in SilverFiles :
          /\ gold' = GoldAfter(gold, df)
          /\ lastBatch' = df
    /\ aggCount' = aggCount + 1
    /\ UNCHANGED <<storeVars, discVars, runVars, flowVars, histVars, concVars,
                   manVars, histConcVars, promVars, aggregated, scoreVars>>

\* the second update_gold_tables call on that file
RerunSecond ==
    /\ ~FrameEmpty(lastBatch)
    /\ gold' = GoldAfter(gold, lastBatch)
    /\ lastBatch' = EmptyFrame
    /\ UNCHANGED <<storeVars, discVars, runVars, flowVars, histVars, concVars,
                   manVars, histConcVars, promVars, aggregated, aggCount,
                   scoreVars>>

NextGoldRerun == RerunFirst \/ RerunSecond

SpecGoldRerun == Init /\ [][NextGoldRerun]_vars

\* C11: the gold upsert is idempotent: from every gold state, a second
\* update_gold_tables call on the same silver batch leaves the three tables
\* as the first call left them.
C11_GoldUpsertIdempotent ==
    [][(~FrameEmpty(lastBatch) /\ FrameEmpty(lastBatch')) => gold' = gold]_vars

\* two batches, each aggregated twice, the second one on top of stored rows
C11_Witness ==
    /\ aggCount = 2
    /\ FrameEmpty(lastBatch)
    /\ Len(gold.station_status) >= 2
    /\ Len(gold.quality_trends) = 1

\* -------------------------------------------- streaming flow, with crashes
\* the events sent to the API: a clean trip, a POOR one of the same hour, and
\* a trip of the next hour
FlowTrips == {TripA, TripB, TripC}

\* BronzeWriter.persist_event: one validated trip as a one-row parquet object
\* and its .json twin, both under date=/hour=
PersistEvent ==
    /\ \E name \in Names, trip \in FlowTrips :
        LET parquet == [prefix |-> "date=", name |-> name, ext |-> ".parquet"]
            json == [prefix |-> "date=", name |-> name, ext |-> ".json"]
        IN /\ \A o \in bronze : o.key \notin {parquet, json}
           /\ bronze' = bronze \cup {[key |-> parquet, modified |-> now],
                                     [key |-> json, modified |-> now]}
           /\ bodies' = Put(Put(bodies, parquet, BronzeFrame("", <<trip>>)),
                            json, BronzeFrame("", <<trip>>))
    /\ UNCHANGED histVars
    /\ UNCHANGED concVars
    /\ UNCHANGED histConcVars
    /\ UNCHANGED promVars
    /\ UNCHANGED lastBatch
    /\ UNCHANGED scoreVars
    /\ UNCHANGED manVars
    /\ UNCHANGED <<now, checkpoint, discVars, runVars, goldVars, staging, silver,
                   reports, fpc, flowFiles, flowMetrics, flowSilverPath, flowWritten,
                   flowAggregated, crashedKeys, processedKeys>>

FlowEnded == fpc \in {"idle", "empty", "blocked", "completed", "crashed"}

\* _load_frames(files)
LoadFrames(files, store) ==
    ConcatFrames([i \in DOMAIN files |->
        IF files[i].key.ext \in {".parquet", ".json"}
        THEN store[files[i].key] ELSE EmptyFrame])

\* bike_data_platform.py:54: check_new_realtime_data
FlowDiscover ==
    /\ FlowEnded
    /\ calls < MaxFlows
    /\ \E window_minutes \in Windows : Discover(window_minutes)
    /\ flowFiles' = lastFiles'
    /\ fpc' = "discovered"
    /\ flowMetrics' = EmptyMetrics
    /\ flowSilverPath' = NoSilver
    /\ flowWritten' = <<>>
    /\ flowAggregated' = EmptyFrame
    /\ UNCHANGED histVars
    /\ UNCHANGED concVars
    /\ UNCHANGED histConcVars
    /\ UNCHANGED promVars
    /\ UNCHANGED lastBatch
    /\ UNCHANGED scoreVars
    /\ UNCHANGED manVars
    /\ UNCHANGED <<now, bronze, runVars, goldVars, bodies, staging, silver, reports,
                   crashedKeys, processedKeys>>

\* bike_data_platform.py:55-60: comprehensive_quality_checks (reads only) and
\* calculate_quality_scores; no records ends the run with status empty
FlowScore ==
    /\ fpc = "discovered"
    /\ LET payload == ScoreDataset(LoadFrames(flowFiles, bodies), "", now)
       IN /\ flowMetrics' = payload.metrics
          /\ staging' = IF payload.staging_path = NoStaging THEN staging
                        ELSE Put(staging, payload.staging_path, payload.frame)
          /\ fpc' = IF payload.metrics.records = 0 THEN "empty" ELSE "scored"
    /\ UNCHANGED histVars
    /\ UNCHANGED concVars
    /\ UNCHANGED histConcVars
    /\ UNCHANGED promVars
    /\ UNCHANGED lastBatch
    /\ UNCHANGED scoreVars
    /\ UNCHANGED manVars
    /\ UNCHANGED <<storeVars, discVars, runVars, goldVars, bodies, silver, reports,
                   flowFiles, flowSilverPath, flowWritten, flowAggregated,
                   crashedKeys, processedKeys>>

\* bike_data_platform.py:62-64
FlowGate ==
    /\ fpc = "scored"
    /\ fpc' = IF ~QualityGate(flowMetrics) THEN "blocked" ELSE "admitted"
    /\ UNCHANGED histVars
    /\ UNCHANGED concVars
    /\ UNCHANGED histConcVars
    /\ UNCHANGED promVars
    /\ UNCHANGED lastBatch
    /\ UNCHANGED scoreVars
    /\ UNCHANGED manVars
    /\ UNCHANGED <<storeVars, discVars, runVars, goldVars, bodies, staging, silver,
                   reports, flowFiles, flowMetrics, flowSilverPath, flowWritten,
                   flowAggregated, crashedKeys, processedKeys>>

\* bike_data_platform.py:66: move_to_silver
FlowPromote ==
    /\ fpc = "admitted"
    /\ flowMetrics.staging_path \in DOMAIN staging
    /\ LET out == PromoteToSilver(staging, silver, flowMetrics.staging_path, now)
       IN /\ staging' = out.staging
          /\ silver' = out.silver
          /\ flowSilverPath' = out.silver_path
          /\ flowWritten' = out.output_paths
    /\ fpc' = "promoted"
    /\ UNCHANGED histVars
    /\ UNCHANGED concVars
    /\ UNCHANGED histConcVars
    /\ UNCHANGED promVars
    /\ UNCHANGED lastBatch
    /\ UNCHANGED scoreVars
    /\ UNCHANGED manVars
    /\ UNCHANGED <<storeVars, discVars, runVars, goldVars, bodies, reports, flowFiles,
                   flowMetrics, flowAggregated, crashedKeys, processedKeys>>

\* bike_data_platform.py:67: update_analytical_tables
FlowGold ==
    /\ fpc = "promoted"
    /\ LET df == IF flowSilverPath = NoSilver THEN EmptyFrame ELSE silver[flowSilverPath]
       IN /\ gold' = GoldAfter(gold, df)
          /\ flowAggregated' = df
          /\ aggregated' = IF FrameEmpty(df) THEN aggregated ELSE aggregated \cup {df}
    /\ aggCount' = aggCount + 1
    /\ processedKeys' = processedKeys \cup {f.key : f \in Range(flowFiles)}
    /\ fpc' = "aggregated"
    /\ UNCHANGED histVars
    /\ UNCHANGED concVars
    /\ UNCHANGED histConcVars
    /\ UNCHANGED promVars
    /\ UNCHANGED lastBatch
    /\ UNCHANGED scoreVars
    /\ UNCHANGED manVars
    /\ UNCHANGED <<storeVars, discVars, runVars, bodies, staging, silver, reports,
                   flowFiles, flowMetrics, flowSilverPath, flowWritten, crashedKeys>>

\* bike_data_platform.py:68-76: generate_quality_report
FlowReport ==
    /\ fpc = "aggregated"
    /\ reports' = reports \cup {now}
    /\ fpc' = "completed"
    /\ UNCHANGED histVars
    /\ UNCHANGED concVars
    /\ UNCHANGED histConcVars
    /\ UNCHANGED promVars
    /\ UNCHANGED lastBatch
    /\ UNCHANGED scoreVars
    /\ UNCHANGED manVars
    /\ UNCHANGED <<storeVars, discVars, runVars, goldVars, bodies, staging, silver,
                   flowFiles, flowMetrics, flowSilverPath, flowWritten, flowAggregated,
                   crashedKeys, processedKeys>>

BeforeGold == {"discovered", "scored", "admitted", "promoted"}

\* the run stops: a task raises, or the worker dies; nothing catches it
\* (bike_data_platform.py:51-76 has no handler) and what the run held is lost
FlowCrash ==
    /\ fpc \in BeforeGold \cup {"aggregated"}
    /\ crashedKeys' = IF fpc \in BeforeGold
                      THEN crashedKeys \cup {f.key : f \in Range(flowFiles)}
                      ELSE crashedKeys
    /\ fpc' = "crashed"
    /\ UNCHANGED histVars
    /\ UNCHANGED concVars
    /\ UNCHANGED histConcVars
    /\ UNCHANGED promVars
    /\ UNCHANGED lastBatch
    /\ UNCHANGED scoreVars
    /\ UNCHANGED manVars
    /\ UNCHANGED <<storeVars, discVars, runVars, goldVars, bodies, staging, silver,
                   reports, flowFiles, flowMetrics, flowSilverPath, flowWritten,
                   flowAggregated, processedKeys>>

NextFlow ==
    \/ Tick
    \/ PersistEvent
    \/ FlowDiscover
    \/ FlowScore
    \/ FlowGate
    \/ FlowPromote
    \/ FlowGold
    \/ FlowReport
    \/ FlowCrash

SpecFlow == Init /\ [][NextFlow]_vars

\* C5: a run that stops after discover_new_data returned files and before the
\* gold update leaves every such file to be reprocessed: while it has not
\* reached a gold update, the next discover_new_data call returns it again.
C5_CrashedFilesRediscoverable ==
    \A o \in bronze :
        (o.key \in crashedKeys \ processedKeys) =>
            o \in Discovered(bronze, LoadRealtimeCheckpoint(checkpoint))

Rejected == flowMetrics.records > 0 /\ flowMetrics.poor_share > 2000

\* C6: when the gate rejects the batch's metrics the run ends blocked, it has
\* written no silver partition and no gold table, and the staging object the
\* scorer wrote still exists.
C6_BlockedRunWritesNothing ==
    (Rejected /\ fpc \notin {"scored", "crashed"}) =>
        /\ fpc = "blocked"
        /\ flowWritten = <<>>
        /\ FrameEmpty(flowAggregated)
        /\ flowMetrics.staging_path \in DOMAIN staging
        /\ Len(staging[flowMetrics.staging_path].rows) = flowMetrics.records

C6_Witness ==
    /\ fpc = "blocked"
    /\ Rejected
    /\ flowMetrics.poor_share < 10000
    /\ flowMetrics.staging_path \in DOMAIN staging

RECURSIVE ConcatRows(_, _)
ConcatRows(store, keys) ==
    IF keys = <<>> THEN <<>>
    ELSE store[Head(keys)].rows \o ConcatRows(store, Tail(keys))

\* C8: the gold update that follows promotion aggregates every row of the
\* promoted batch: the frame update_gold_tables read holds the rows of all the
\* partitions the run wrote.
C8_GoldAggregatesWholeBatch ==
    fpc \in {"aggregated", "completed"} =>
        flowAggregated.rows = ConcatRows(silver, flowWritten)

\* ------------------------------------------------------- historical path
MaxHistRuns == 2


\* a normalized row without start time (NaT after to_datetime)
TripF == [Trip(7, 28800, 29100, 102, 101, 28, 300) EXCEPT !["start_time"] = Missing]

\* a later copy of trip 1 in another CSV member, and an earlier copy of trip 2
\* in the same member
TripADup == [TripA2 EXCEPT !["trip_id"] = Ok(1)]
TripBFirst == [TripB EXCEPT !["rider_age"] = Ok(28)]

\* the rows of the CSV members of an archive, as _normalize_csv maps them
\* before it drops duplicates
ArchiveMembers(a) ==
    CASE a = 201301 -> <<<<TripA, TripC>>, <<TripF, TripADup>>>>
      [] a = 201302 -> <<<<TripBFirst, TripB>>, <<TripE>>>>
      [] OTHER -> <<>>

\* _normalize_csv: drop_duplicates(subset=["trip_id"], keep="last")
RECURSIVE NormalizeCsv(_)
NormalizeCsv(rows) ==
    IF rows = <<>> THEN <<>>
    ELSE IF \E j \in 2..Len(rows) : rows[j]["trip_id"] = Head(rows)["trip_id"]
    THEN NormalizeCsv(Tail(rows))
    ELSE <<Head(rows)>> \o NormalizeCsv(Tail(rows))

\* pd.concat of the frames of the members
RECURSIVE ConcatMembers(_)
ConcatMembers(members) ==
    IF members = <<>> THEN <<>>
    ELSE NormalizeCsv(Head(members)) \o ConcatMembers(Tail(members))

\* the rows _normalize_csv yields for the members of an archive
ArchiveRows(a) == ConcatMembers(ArchiveMembers(a))

\* pending/archive=<slug>/historical_<slug>_<timestamp>.parquet
NoStagedKey == [slug |-> NoArchive, ts |-> -1]
StagedKey(slug, ts) == [slug |-> slug, ts |-> ts]
StagedLT(a, b) == a.slug < b.slug \/ (a.slug = b.slug /\ a.ts < b.ts)

\* sorted(...) of staged uris
RECURSIVE SortStaged(_)
SortStaged(S) ==
    IF S = {} THEN <<>>
    ELSE LET m == CHOOSE x \in S : \A y \in S \ {x} : StagedLT(x, y)
         IN <<m>> \o SortStaged(S \ {m})

\* _stage_archive: the dataset written to pending/
StagedDataset(a, ts) ==
    [columns |-> HistoricalColumns,
     rows |-> [i \in DOMAIN ArchiveRows(a) |->
                 [ArchiveRows(a)[i] EXCEPT !["source_type"] = Ok("historical"),
                                           !["ingested_at"] = Ok(ts)]]]

\* mutant: archives with a manifest entry are staged again
StageArchiveAgain(st, a, failing, ts) ==
    IF a \in failing
    THEN [st EXCEPT !.invalid_archives = Append(@, a)]
    ELSE IF ArchiveRows(a) = <<>>
    THEN st
    ELSE [st EXCEPT
            !.pending = Put(@, StagedKey(a, ts), StagedDataset(a, ts)),
            !.manifest = Put(@, a, [status |-> "pending", slug |-> a,
                                    staged_key |-> StagedKey(a, ts)]),
            !.staged_files = Append(@, StagedKey(a, ts))]

\* mutant: only pending archives are skipped
StageArchiveSkipPending(st, a, failing, ts) ==
    IF a \in DOMAIN st.manifest /\ st.manifest[a].status \in {"pending"}
    THEN st
    ELSE StageArchiveAgain(st, a, failing, ts)

\* historical.py:302-313 for one archive; download or extraction raises for
\* the archives in failing
StageArchive(st, a, failing, ts) ==
    IF a \in DOMAIN st.manifest /\ st.manifest[a].status \in {"pending", "processed"}
    THEN st
    ELSE IF a \in failing
    THEN [st EXCEPT !.invalid_archives = Append(@, a)]
    ELSE IF ArchiveRows(a) = <<>>
    THEN st
    ELSE [st EXCEPT
            !.pending = Put(@, StagedKey(a, ts), StagedDataset(a, ts)),
            !.manifest = Put(@, a, [status |-> "pending", slug |-> a,
                                    staged_key |-> StagedKey(a, ts)]),
            !.staged_files = Append(@, StagedKey(a, ts))]

\* mutant: the loop ends at the first archive that fails
RECURSIVE StageAllStopOnFailure(_, _, _, _)
StageAllStopOnFailure(st, archives, failing, ts) ==
    IF archives = <<>> \/ st.invalid_archives # <<>> THEN st
    ELSE StageAllStopOnFailure(StageArchive(st, Head(archives), failing, ts),
                               Tail(archives), failing, ts)

RECURSIVE StageAll(_, _, _, _)
StageAll(st, archives, failing, ts) ==
    IF archives = <<>> THEN st
    ELSE StageAll(StageArchive(st, Head(archives), failing, ts), Tail(archives),
                  failing, ts)

HistEnded == hpc \in {"idle", "done", "interrupted"}

MaxReadFailures == 1

\* mutant: a failed read still yields the stored archives
LoadArchiveManifestStored(readable) == manifest

\* _load_archive_manifest: the stored archives, or no archives when the
\* document cannot be read or parsed (historical.py:54-57)
LoadArchiveManifest(readable) == IF readable THEN manifest ELSE <<>>
ReadOutcomes == IF readFailures < MaxReadFailures THEN BOOLEAN ELSE {TRUE}

StagedArchives(out) == [i \in DOMAIN out.staged_files |-> out.staged_files[i].slug]
StagingsAfter(out) ==
    [a \in ArchiveNames |->
        IF a \in Range(StagedArchives(out)) THEN stagings[a] + 1 ELSE stagings[a]]

\* validate_historical_batches, as the first task of bike_batch_historical
ValidateHistoricalBatches ==
    /\ HistEnded
    /\ histRuns < MaxHistRuns
    /\ \E readable \in ReadOutcomes, failing \in SUBSET ArchiveNames :
       \E out \in {StageAll([manifest |-> LoadArchiveManifest(readable),
                             pending |-> pending, staged_files |-> <<>>,
                             invalid_archives |-> <<>>],
                            Archives, failing, now)} :
           /\ manifest' = IF out.staged_files # <<>> THEN out.manifest ELSE manifest
           /\ pending' = out.pending
           /\ histValid' = SortStaged(DOMAIN pending \cup Range(out.staged_files))
           /\ histInvalid' = out.invalid_archives
           /\ histFailing' = failing
           /\ histCancelled' = NoArchive
           /\ histStaged' = StagedArchives(out)
           /\ stagings' = StagingsAfter(out)
           /\ manifestOk' = readable
           /\ readFailures' = IF readable THEN readFailures ELSE readFailures + 1
    /\ histRuns' = histRuns + 1
    /\ hpc' = "validated"
    /\ histBronze' = <<>>
    /\ histMetrics' = EmptyMetrics
    /\ histWritten' = <<>>
    /\ histAggregated' = EmptyFrame
    /\ UNCHANGED concVars
    /\ UNCHANGED histConcVars
    /\ UNCHANGED promVars
    /\ UNCHANGED lastBatch
    /\ UNCHANGED scoreVars
    /\ UNCHANGED <<storeVars, discVars, runVars, goldVars, flowVars, processed>>

\* the archive whose _stage_archive is in flight after the first k archives
\* of the listing: the next one, unless the loop skips it (historical.py:303-305)
InFlight(m, k) ==
    IF k < Len(Archives) /\ (Archives[k + 1] \notin DOMAIN m)
    THEN Archives[k + 1] ELSE NoArchive

\* validate_historical_batches stopped inside its loop (historical.py:302-313),
\* after the first k archives of the listing, by a cancellation of the download
\* in flight (not an Exception, so not caught at historical.py:308) or after
\* at least one staged object, before the manifest is persisted
\* (historical.py:315-316)
ValidateInterrupted ==
    /\ HistEnded
    /\ histRuns < MaxHistRuns
    /\ \E readable \in ReadOutcomes, failing \in SUBSET ArchiveNames,
          k \in 0..Len(Archives) :
       \E out \in {StageAll([manifest |-> LoadArchiveManifest(readable),
                             pending |-> pending, staged_files |-> <<>>,
                             invalid_archives |-> <<>>],
                            SubSeq(Archives, 1, k), failing, now)} :
           /\ out.staged_files # <<>> \/ InFlight(out.manifest, k) # NoArchive
           /\ pending' = out.pending
           /\ histInvalid' = out.invalid_archives
           /\ histFailing' = failing \cap Range(SubSeq(Archives, 1, k))
           /\ histCancelled' = InFlight(out.manifest, k)
           /\ histStaged' = StagedArchives(out)
           /\ stagings' = StagingsAfter(out)
           /\ manifestOk' = readable
           /\ readFailures' = IF readable THEN readFailures ELSE readFailures + 1
    /\ histRuns' = histRuns + 1
    /\ hpc' = "interrupted"
    /\ histValid' = <<>>
    /\ histBronze' = <<>>
    /\ histMetrics' = EmptyMetrics
    /\ histWritten' = <<>>
    /\ histAggregated' = EmptyFrame
    /\ UNCHANGED concVars
    /\ UNCHANGED histConcVars
    /\ UNCHANGED promVars
    /\ UNCHANGED lastBatch
    /\ UNCHANGED scoreVars
    /\ UNCHANGED <<storeVars, discVars, runVars, goldVars, flowVars, processed,
                   manifest>>

\* historical.py:342-351: rows without start time dropped, end_time coerced,
\* source_type and ingested_at filled
Coerced(df, ts) ==
    LET kept == SelectSeq(df.rows, LAMBDA r : r["start_time"].kind = "ok")
    IN [columns |-> df.columns \cup {"source_type", "ingested_at"},
        rows |-> [i \in DOMAIN kept |->
                    [kept[i] EXCEPT
                        !["end_time"] = IF @.kind = "ok" THEN @ ELSE Missing,
                        !["source_type"] = Ok("historical"),
                        !["ingested_at"] =
                            IF IsMissing(kept[i], df.columns, "ingested_at")
                            THEN Ok(ts) ELSE @]]]

\* _move_to_processed
MoveToProcessed(st, uri) ==
    [st EXCEPT !.processed = Put(@, uri, st.pending[uri]),
               !.pending = Delete(@, uri)]

\* _archive_name_from_stage
ArchiveNameFromStage(stage_key, m) ==
    IF \E name \in DOMAIN m : m[name].staged_key = stage_key
    THEN CHOOSE name \in DOMAIN m : m[name].staged_key = stage_key
    ELSE NoArchive

\* uuid4 of a bronze key: a name no historical/ object carries yet
HistNames(b) == {o.key.name : o \in {x \in b : x.key.prefix = "historical/"}}
FreshName(b) ==
    CHOOSE n \in 1..(Cardinality(HistNames(b)) + 1) :
        n \notin HistNames(b) /\ \A m \in 1..(n - 1) : m \in HistNames(b)

\* historical.py:357-366: one bronze object per (date, hour) group
RECURSIVE WriteBronzeGroups(_, _, _, _)
WriteBronzeGroups(st, df, parts, ts) ==
    IF parts = <<>> THEN st
    ELSE LET bronze_key == [prefix |-> "historical/", name |-> FreshName(st.bronze),
                            ext |-> ".parquet"]
         IN WriteBronzeGroups(
                [st EXCEPT
                    !.bronze = @ \cup {[key |-> bronze_key, modified |-> ts]},
                    !.bodies = Put(@, bronze_key, GroupOf(df, Head(parts))),
                    !.bronze_paths = Append(@, [key |-> bronze_key, modified |-> ts])],
                df, Tail(parts), ts)

\* a variant that marks the archive processed and keeps its staged key
LoadStagedKeepKey(st, uri, ts) ==
    IF FrameEmpty(st.pending[uri]) THEN MoveToProcessed(st, uri)
    ELSE LET df == Coerced(st.pending[uri], ts)
             archive_name == ArchiveNameFromStage(uri, st.manifest)
             written == WriteBronzeGroups(st, df, Partitions(df), ts)
             moved == MoveToProcessed(written, uri)
         IN IF archive_name # NoArchive
            THEN [moved EXCEPT
                    !.manifest[archive_name] = [@ EXCEPT !.status = "processed"]]
            ELSE moved

\* historical.py:337-371 for one staged file
LoadStaged(st, uri, ts) ==
    IF FrameEmpty(st.pending[uri]) THEN MoveToProcessed(st, uri)
    ELSE LET df == Coerced(st.pending[uri], ts)
             archive_name == ArchiveNameFromStage(uri, st.manifest)
             written == WriteBronzeGroups(st, df, Partitions(df), ts)
             moved == MoveToProcessed(written, uri)
         IN IF archive_name # NoArchive
            THEN [moved EXCEPT
                    !.manifest[archive_name] =
                        [@ EXCEPT !.status = "processed", !.staged_key = NoStagedKey]]
            ELSE moved

RECURSIVE LoadAll(_, _, _)
LoadAll(st, valid_files, ts) ==
    IF valid_files = <<>> THEN st
    ELSE LoadAll(LoadStaged(st, Head(valid_files), ts), Tail(valid_files), ts)

\* load_historical_to_bronze(valid_files)
LoadHistoricalToBronze ==
    /\ hpc = "validated"
    /\ \E readable \in ReadOutcomes :
       \E out \in {LoadAll([manifest |-> LoadArchiveManifest(readable),
                            pending |-> pending, processed |-> processed,
                            bronze |-> bronze, bodies |-> bodies,
                            bronze_paths |-> <<>>],
                           histValid, now)} :
          /\ manifest' = out.manifest
          /\ pending' = out.pending
          /\ processed' = out.processed
          /\ bronze' = out.bronze
          /\ bodies' = out.bodies
          /\ histBronze' = out.bronze_paths
          /\ manifestOk' = readable
          /\ readFailures' = IF readable THEN readFailures ELSE readFailures + 1
    /\ hpc' = "loaded"
    /\ UNCHANGED concVars
    /\ UNCHANGED histConcVars
    /\ UNCHANGED promVars
    /\ UNCHANGED lastBatch
    /\ UNCHANGED scoreVars
    /\ UNCHANGED <<now, checkpoint, discVars, runVars, goldVars, staging, silver,
                   reports, fpc, flowFiles, flowMetrics, flowSilverPath, flowWritten,
                   flowAggregated, crashedKeys, processedKeys, histRuns, histValid,
                   histMetrics, histWritten, histAggregated, histInvalid, histStaged,
                   stagings, histFailing, histCancelled>>

\* process_historical_to_silver(bronze_files): score_dataset, then
\* promote_to_silver, then update_gold_tables when a partition was returned
ProcessHistoricalToSilver ==
    /\ hpc = "loaded"
    /\ \E payload \in {IF histBronze = <<>>
                       THEN [staging_path |-> NoStaging, frame |-> EmptyFrame,
                             metrics |-> EmptyMetrics]
                       ELSE ScoreDataset(LoadFrames(histBronze, bodies),
                                         "historical", now)} :
       \E scored \in {IF payload.staging_path = NoStaging THEN staging
                      ELSE Put(staging, payload.staging_path, payload.frame)} :
       \E out \in {PromoteToSilver(scored, silver, payload.staging_path, now)} :
       \E df \in {IF out.silver_path = NoSilver THEN EmptyFrame
                  ELSE out.silver[out.silver_path]} :
          /\ histMetrics' = payload.metrics
          /\ staging' = out.staging
          /\ silver' = out.silver
          /\ histWritten' = out.output_paths
          /\ histAggregated' = df
          /\ gold' = GoldAfter(gold, df)
          /\ aggregated' = IF FrameEmpty(df) THEN aggregated ELSE aggregated \cup {df}
          /\ aggCount' = IF out.silver_path = NoSilver THEN aggCount ELSE aggCount + 1
    /\ hpc' = "done"
    /\ UNCHANGED concVars
    /\ UNCHANGED histConcVars
    /\ UNCHANGED promVars
    /\ UNCHANGED lastBatch
    /\ UNCHANGED scoreVars
    /\ UNCHANGED manVars
    /\ UNCHANGED <<storeVars, discVars, runVars, bodies, reports, fpc, flowFiles,
                   flowMetrics, flowSilverPath, flowWritten, flowAggregated,
                   crashedKeys, processedKeys, manifest, pending, processed,
                   histRuns, histValid, histBronze>>

NextHist ==
    \/ Tick
    \/ ValidateHistoricalBatches
    \/ ValidateInterrupted
    \/ LoadHistoricalToBronze
    \/ ProcessHistoricalToSilver

SpecHist == Init /\ [][NextHist]_vars

\* C7: in the historical path a batch is promoted to silver and aggregated
\* into gold only when quality_gate admits its metrics: a finished run whose
\* metrics the gate rejects has written no silver partition and read no frame
\* into the gold tables.
C7_HistoricalGateBeforePromotion ==
    (hpc = "done" /\ histMetrics.records > 0 /\ ~QualityGate(histMetrics)) =>
        /\ histWritten = <<>>
        /\ FrameEmpty(histAggregated)

\* --------------------------------------- gold upsert, two concurrent calls
\* the three tables in the order update_gold_tables upserts them
GoldTables == <<"station_status", "hourly_usage", "quality_trends">>
IndexCols(t) ==
    CASE t = 1 -> <<"source_type", "start_station_id">>
      [] t = 2 -> <<"source_type", "hour">>
      [] t = 3 -> <<"source_type", "date">>
Rollup(df, t) ==
    CASE t = 1 -> StationStatus(df)
      [] t = 2 -> HourlyUsage(df)
      [] t = 3 -> QualityTrend(df)

\* the silver files the concurrent calls are handed: one-row partitions
ConcFiles == {df \in SilverFiles : Len(df.rows) = 1}

Running(w) == wpc[w].at \in {"read", "write"}

\* quality.py:468-510: the call reads its silver file and builds the rollups
WriterStart(w) ==
    /\ wpc[w].at = "idle"
    /\ \E df \in ConcFiles : wdf' = [wdf EXCEPT ![w] = df]
    /\ wpc' = [wpc EXCEPT ![w] = [at |-> "read", table |-> 1]]
    /\ overlapped' = (overlapped \/ \E o \in Writers \ {w} : Running(o))
    /\ aggCount' = aggCount + 1
    /\ UNCHANGED promVars
    /\ UNCHANGED lastBatch
    /\ UNCHANGED scoreVars
    /\ UNCHANGED <<storeVars, discVars, runVars, flowVars, histVars, manVars,
                   histConcVars, gold,
                   aggregated, wread>>

\* quality.py:479-482: _upsert reads the stored table
WriterRead(w) ==
    /\ wpc[w].at = "read"
    /\ wread' = [wread EXCEPT ![w] = gold[GoldTables[wpc[w].table]]]
    /\ wpc' = [wpc EXCEPT ![w].at = "write"]
    /\ UNCHANGED promVars
    /\ UNCHANGED lastBatch
    /\ UNCHANGED scoreVars
    /\ UNCHANGED <<storeVars, discVars, runVars, flowVars, histVars, manVars,
                   histConcVars,
                   goldVars, wdf, overlapped>>

\* quality.py:483-489: _upsert writes the whole table back
WriterWrite(w) ==
    /\ wpc[w].at = "write"
    /\ \E t \in {wpc[w].table} :
        /\ gold' = [gold EXCEPT ![GoldTables[t]] =
                        Upsert(wread[w], Rollup(wdf[w], t), IndexCols(t))]
        /\ wpc' = [wpc EXCEPT ![w] =
                        IF t = Len(GoldTables) THEN [at |-> "done", table |-> 0]
                        ELSE [at |-> "read", table |-> t + 1]]
        /\ aggregated' = IF t = Len(GoldTables) THEN aggregated \cup {wdf[w]}
                         ELSE aggregated
    /\ UNCHANGED promVars
    /\ UNCHANGED lastBatch
    /\ UNCHANGED scoreVars
    /\ UNCHANGED <<storeVars, discVars, runVars, flowVars, histVars, manVars,
                   histConcVars,
                   aggCount, wdf, wread, overlapped>>

NextGoldConc ==
    \/ \E w \in Writers : WriterStart(w)
    \/ \E w \in Writers : WriterRead(w)
    \/ \E w \in Writers : WriterWrite(w)

SpecGoldConc == Init /\ [][NextGoldConc]_vars

\* the rollup rows of writer w that table t has no row for
LostRows(w, t) ==
    {i \in DOMAIN Rollup(wdf[w], t) :
        \A j \in DOMAIN gold[GoldTables[t]] :
            ~IndexEq(Rollup(wdf[w], t)[i], gold[GoldTables[t]][j], IndexCols(t))}

AllDone == \A w \in Writers : wpc[w].at = "done"

\* C12: with the two update_gold_tables calls serialized (neither starts
\* while the other is running) every table holds a row for every key either
\* call contributed; only interleaved calls can lose rows.
C12_SerializedWritersLoseNothing ==
    (AllDone /\ ~overlapped) =>
        \A w \in Writers, t \in DOMAIN GoldTables : LostRows(w, t) = {}

\* interleaved calls after which the rows one call contributed to a table
\* are missing
C12_Witness ==
    /\ AllDone
    /\ overlapped
    /\ \E w \in Writers, t \in DOMAIN GoldTables : LostRows(w, t) # {}

\* ------------------------------------------------------ archive manifest
\* the status of an archive in a manifest document: unseen, pending, processed
Rank(m, a) ==
    IF a \notin DOMAIN m THEN 0
    ELSE IF m[a].status = "pending" THEN 1
    ELSE 2

\* the stored manifest moves no archive backward in this step
Forward == \A a \in ArchiveNames : Rank(manifest', a) >= Rank(manifest, a)

\* the statement of C13 as written: every step of every run keeps each
\* archive's stored status at or after its previous stored status.
C13_ManifestOnlyMovesForward == [][Forward]_vars

\* C13: in any sequence of validate_historical_batches and
\* load_historical_to_bronze runs whose manifest read succeeds, no archive's
\* stored status moves backward along unseen -> pending -> processed and no
\* entry disappears.
C13_ForwardWhenManifestRead == [][manifestOk' => Forward]_vars

\* a second run has staged one archive while another stays processed, with
\* every manifest read successful
C13_Witness ==
    /\ hpc = "validated"
    /\ histRuns = 2
    /\ readFailures = 0
    /\ \E a, b \in ArchiveNames :
        /\ Rank(manifest, a) = 2
        /\ Rank(manifest, b) = 1
        /\ b \in Range(histStaged)

\* no staged object is written in this step for an archive stored as processed
ProcessedNotStaged ==
    \A a \in ArchiveNames : Rank(manifest, a) = 2 => stagings'[a] = stagings[a]

\* the statement of C14 as written: no pass ever stages an archive whose
\* stored entry is processed.
C14_ProcessedNeverRestaged == [][ProcessedNotStaged]_vars

\* C14: a validate_historical_batches pass that reads the manifest stages no
\* archive whose entry is processed, although the listing still contains it.
C14_ProcessedSkippedWhenManifestRead == [][manifestOk' => ProcessedNotStaged]_vars

\* a pass over the listing with one archive already processed has produced
\* exactly one staged object, for the other archive
C14_Witness ==
    /\ hpc = "validated"
    /\ manifestOk
    /\ Len(histStaged) = 1
    /\ Cardinality(DOMAIN pending) = 1
    /\ \E a \in ArchiveNames :
        /\ Rank(manifest, a) = 2
        /\ stagings[a] = 1
        /\ a \notin Range(histStaged)

\* the staged objects of an archive, under pending/ or moved to processed/
StagedObjects(a) == {k \in DOMAIN pending \cup DOMAIN processed : k.slug = a}

\* C15: across validate_historical_batches runs whose manifest reads succeed,
\* a run interrupted between staging and persisting the manifest included, an
\* archive already staged is skipped by later passes: at most one staged
\* object per archive exists.
C15_OneStagedObjectPerArchive ==
    readFailures = 0 => \A a \in ArchiveNames : Cardinality(StagedObjects(a)) <= 1

\* ------------------------------- two interleaved bike_batch_historical runs
\* load_historical_to_bronze over valid_files; pd.read_parquet raises on a
\* staged file another run has moved away (historical.py:338)
RECURSIVE LoadPresent(_, _, _)
LoadPresent(st, valid_files, ts) ==
    IF valid_files = <<>> THEN [st |-> st, raised |-> FALSE]
    ELSE IF Head(valid_files) \notin DOMAIN st.pending
    THEN [st |-> st, raised |-> TRUE]
    ELSE LoadPresent(LoadStaged(st, Head(valid_files), ts), Tail(valid_files), ts)

\* historical.py:291-292: validate_historical_batches loads the manifest and
\* lists pending/
HcValidateStart(r) ==
    /\ hcpc[r] = "idle"
    /\ hcManifest' = [hcManifest EXCEPT ![r] = manifest]
    /\ hcListed' = [hcListed EXCEPT ![r] = DOMAIN pending]
    /\ hcpc' = [hcpc EXCEPT ![r] = "staging"]
    /\ UNCHANGED promVars
    /\ UNCHANGED lastBatch
    /\ UNCHANGED scoreVars
    /\ UNCHANGED <<storeVars, discVars, runVars, goldVars, flowVars, histVars,
                   concVars, manVars, hcValid, hcBronze>>

\* historical.py:294-324: the staging loop, the manifest write and the result
HcValidateFinish(r) ==
    /\ hcpc[r] = "staging"
    /\ \E failing \in SUBSET ArchiveNames :
       \E out \in {StageAll([manifest |-> hcManifest[r], pending |-> pending,
                             staged_files |-> <<>>, invalid_archives |-> <<>>],
                            Archives, failing, now)} :
           /\ manifest' = IF out.staged_files # <<>> THEN out.manifest ELSE manifest
           /\ pending' = out.pending
           /\ hcValid' = [hcValid EXCEPT
                            ![r] = SortStaged(hcListed[r] \cup Range(out.staged_files))]
           /\ stagings' = StagingsAfter(out)
    /\ hcpc' = [hcpc EXCEPT ![r] = "validated"]
    /\ UNCHANGED promVars
    /\ UNCHANGED lastBatch
    /\ UNCHANGED scoreVars
    /\ UNCHANGED <<storeVars, discVars, runVars, goldVars, flowVars, concVars,
                   processed, hpc, histRuns, histValid, histBronze, histMetrics,
                   histWritten, histAggregated, manifestOk, readFailures,
                   histInvalid, histStaged, histFailing, histCancelled,
                   hcManifest, hcListed, hcBronze>>

\* historical.py:336: load_historical_to_bronze loads the manifest
HcLoadStart(r) ==
    /\ hcpc[r] = "validated"
    /\ hcManifest' = [hcManifest EXCEPT ![r] = manifest]
    /\ hcpc' = [hcpc EXCEPT ![r] = "loading"]
    /\ UNCHANGED promVars
    /\ UNCHANGED lastBatch
    /\ UNCHANGED scoreVars
    /\ UNCHANGED <<storeVars, discVars, runVars, goldVars, flowVars, histVars,
                   concVars, manVars, hcListed, hcValid, hcBronze>>

\* historical.py:337-373: the loop over valid_files and the manifest write;
\* an exception leaves what was written and skips the manifest write
HcLoadFinish(r) ==
    /\ hcpc[r] = "loading"
    /\ \E res \in {LoadPresent([manifest |-> hcManifest[r], pending |-> pending,
                                processed |-> processed, bronze |-> bronze,
                                bodies |-> bodies, bronze_paths |-> <<>>],
                               hcValid[r], now)} :
          /\ manifest' = IF res.raised THEN manifest ELSE res.st.manifest
          /\ pending' = res.st.pending
          /\ processed' = res.st.processed
          /\ bronze' = res.st.bronze
          /\ bodies' = res.st.bodies
          /\ hcBronze' = [hcBronze EXCEPT
                            ![r] = IF res.raised THEN <<>> ELSE res.st.bronze_paths]
          /\ hcpc' = [hcpc EXCEPT ![r] = IF res.raised THEN "failed" ELSE "loaded"]
    /\ UNCHANGED promVars
    /\ UNCHANGED lastBatch
    /\ UNCHANGED scoreVars
    /\ UNCHANGED <<now, checkpoint, discVars, runVars, goldVars, staging, silver,
                   reports, fpc, flowFiles, flowMetrics, flowSilverPath, flowWritten,
                   flowAggregated, crashedKeys, processedKeys, concVars, manVars,
                   hpc, histRuns, histValid, histBronze, histMetrics, histWritten,
                   histAggregated, hcManifest, hcListed, hcValid>>

\* process_historical_to_silver(bronze_files) of run r
HcProcess(r) ==
    /\ hcpc[r] = "loaded"
    /\ \E payload \in {IF hcBronze[r] = <<>>
                       THEN [staging_path |-> NoStaging, frame |-> EmptyFrame,
                             metrics |-> EmptyMetrics]
                       ELSE ScoreDataset(LoadFrames(hcBronze[r], bodies),
                                         "historical", now)} :
       \E scored \in {IF payload.staging_path = NoStaging THEN staging
                      ELSE Put(staging, payload.staging_path, payload.frame)} :
       \E out \in {PromoteToSilver(scored, silver, payload.staging_path, now)} :
       \E df \in {IF out.silver_path = NoSilver THEN EmptyFrame
                  ELSE out.silver[out.silver_path]} :
          /\ staging' = out.staging
          /\ silver' = out.silver
          /\ gold' = GoldAfter(gold, df)
          /\ aggregated' = IF FrameEmpty(df) THEN aggregated ELSE aggregated \cup {df}
          /\ aggCount' = IF out.silver_path = NoSilver THEN aggCount ELSE aggCount + 1
    /\ hcpc' = [hcpc EXCEPT ![r] = "done"]
    /\ UNCHANGED promVars
    /\ UNCHANGED lastBatch
    /\ UNCHANGED scoreVars
    /\ UNCHANGED <<storeVars, discVars, runVars, bodies, reports, fpc, flowFiles,
                   flowMetrics, flowSilverPath, flowWritten, flowAggregated,
                   crashedKeys, processedKeys, histVars, concVars, manVars,
                   hcManifest, hcListed, hcValid, hcBronze>>

NextHistConc ==
    \/ Tick
    \/ \E r \in Runs : HcValidateStart(r)
    \/ \E r \in Runs : HcValidateFinish(r)
    \/ \E r \in Runs : HcLoadStart(r)
    \/ \E r \in Runs : HcLoadFinish(r)
    \/ \E r \in Runs : HcProcess(r)

SpecHistConc == Init /\ [][NextHistConc]_vars

\* C16: when two historical runs interleave, each loading the manifest at the
\* start of a task and persisting the whole document at its end, no write
\* moves an archive's stored status backward.
C16_InterleavedRunsMoveForward == [][Forward]_vars

\* ------------------------------------------------ failures during validate
\* a step that is one validate_historical_batches pass
ValidateStep == histRuns' = histRuns + 1
\* the manifest the pass worked on
Loaded == IF manifestOk' THEN manifest ELSE <<>>
\* the pass called _stage_archive for a and it raised an Exception
Attempted(a) == a \in histFailing' /\ a \notin DOMAIN Loaded
NotAdvanced(a) ==
    /\ Rank(manifest', a) <= Rank(manifest, a)
    /\ manifestOk' => Rank(manifest', a) = 0
\* every other archive the pass had to stage is staged and pending
RestStaged(a) ==
    \A b \in ArchiveNames \ {a} :
        (b \notin DOMAIN Loaded /\ b \notin histFailing' /\ ArchiveRows(b) # <<>>)
            => /\ b \in Range(histStaged')
               /\ Rank(manifest', b) = 1
               /\ StagedKey(b, now) \in DOMAIN pending'
Reported(a) == hpc' = "validated" /\ a \in Range(histInvalid')

\* C17 as stated: an archive whose staging fails or is cancelled during
\* validate_historical_batches is reported invalid, gets no manifest entry, and
\* the other archives of the listing are still staged in the same pass.
C17_FailedOrCancelledReportedInvalid ==
    [][ValidateStep =>
          \A a \in ArchiveNames :
              (Attempted(a) \/ a = histCancelled')
                  => Reported(a) /\ NotAdvanced(a) /\ RestStaged(a)]_vars

\* C17 (amended): in a pass that runs to its end, an archive whose staging
\* raises an error is reported invalid, gets no manifest entry, and the other
\* archives are still staged; an archive whose staging is cancelled gets no
\* manifest entry.
C17_FailedReportedCancelledUnseen ==
    [][ValidateStep =>
          \A a \in ArchiveNames :
              /\ (Attempted(a) /\ hpc' = "validated")
                    => Reported(a) /\ NotAdvanced(a) /\ RestStaged(a)
              /\ a = histCancelled' => NotAdvanced(a)]_vars

\* a pass in which the first archive failed and the second was staged
C17_Witness ==
    /\ hpc = "validated"
    /\ manifestOk
    /\ histInvalid = <<201301>>
    /\ histStaged = <<201302>>
    /\ 201301 \notin DOMAIN manifest
    /\ Rank(manifest, 201302) = 1

\* --------------------------------------------------- unreadable manifest
\* C18: a validate_historical_batches pass whose manifest read fails runs to
\* its end with the manifest taken as empty: every listed archive that has
\* rows and whose staging does not fail is staged again, whatever its stored
\* status was, and the manifest it persists holds the archives it staged.
C18_UnreadableManifestRestagesAll ==
    [][(ValidateStep /\ ~manifestOk' /\ hpc' = "validated") =>
          /\ \A a \in ArchiveNames :
                (a \notin histFailing' /\ ArchiveRows(a) # <<>>)
                    => /\ a \in Range(histStaged')
                       /\ stagings'[a] = stagings[a] + 1
                       /\ StagedKey(a, now) \in Range(histValid')
          /\ histStaged' # <<>> => DOMAIN manifest' = Range(histStaged')]_vars

\* the second run could not read the manifest and staged again an archive the
\* first run had processed
C18_Witness ==
    /\ hpc = "validated"
    /\ ~manifestOk
    /\ histRuns = 2
    /\ \E a \in Range(histStaged) :
        /\ stagings[a] = 2
        /\ \E k \in DOMAIN processed : k.slug = a
        /\ Rank(manifest, a) = 1

\* ------------------------------------------------- promote_to_silver calls
MaxStaged == 2
MaxPromotes == 2

\* the staged batches: scored frames of no row, of one row, of rows of one
\* hour, of two hours in both orders, and of rows with and without start_time
PromoteRows ==
    {<<>>, <<TripA>>, <<TripF>>, <<TripA, TripA>>, <<TripA, TripC>>,
     <<TripC, TripA>>, <<TripA, TripF>>}
PromoteBatches == {ScoredFrame(BronzeFrame("", t), Stations) : t \in PromoteRows}

\* an object is written under staging/ (quality.py:404-407)
StageBatch ==
    /\ Cardinality(DOMAIN staging) < MaxStaged
    /\ \E df \in PromoteBatches :
          staging' = Put(staging, StagingKey("realtime", now), df)
    /\ UNCHANGED <<storeVars, discVars, runVars, goldVars, bodies, silver, reports,
                   fpc, flowFiles, flowMetrics, flowSilverPath, flowWritten,
                   flowAggregated, crashedKeys, processedKeys, histVars, concVars,
                   manVars, histConcVars, promVars, lastBatch, scoreVars>>

\* promote_to_silver(staging_path), on the empty reference or a staged object
PromoteCall ==
    /\ pCalls < MaxPromotes
    /\ \E staging_path \in DOMAIN staging \cup {NoStaging} :
       \E out \in {PromoteToSilver(staging, silver, staging_path, now)} :
          /\ staging' = out.staging
          /\ silver' = out.silver
          /\ pArg' = staging_path
          /\ pRef' = out.silver_path
          /\ pPaths' = out.output_paths
    /\ pCalls' = pCalls + 1
    /\ UNCHANGED <<storeVars, discVars, runVars, goldVars, bodies, reports,
                   fpc, flowFiles, flowMetrics, flowSilverPath, flowWritten,
                   flowAggregated, crashedKeys, processedKeys, histVars, concVars,
                   manVars, histConcVars, lastBatch, scoreVars>>

NextPromote == Tick \/ StageBatch \/ PromoteCall

SpecPromote == Init /\ [][NextPromote]_vars

PromoteStep == pCalls' = pCalls + 1
EmptyCall == pArg' = NoStaging \/ FrameEmpty(staging[pArg'])

\* C19: promote_to_silver on the empty reference or on a staged batch of zero
\* rows returns the empty reference, writes nothing and deletes nothing: the
\* staging and silver buckets are as before the call.
C19_EmptyPromotionTouchesNothing ==
    [][(PromoteStep /\ EmptyCall) =>
          /\ pRef' = NoSilver
          /\ pPaths' = <<>>
          /\ staging' = staging
          /\ silver' = silver]_vars

\* a call on a staged batch of zero rows, after an earlier call wrote silver
\* objects: the batch is still staged
C19_Witness ==
    /\ pCalls = 2
    /\ pArg \in DOMAIN staging
    /\ FrameEmpty(staging[pArg])
    /\ pRef = NoSilver
    /\ silver # <<>>

\* the (date, hour) values of the rows of df
PartitionSet(df) ==
    {PartitionOf(df.rows[i]) : i \in {j \in DOMAIN df.rows : HasPartition(df.rows[j])}}
\* the objects of pPaths' that hold the row r
Holding(r) == {i \in DOMAIN pPaths' : \E j \in DOMAIN silver'[pPaths'[i]].rows :
                                          silver'[pPaths'[i]].rows[j] = r}
\* one object per (date, hour) of the batch, and nothing else written
OnePerPartition(df) ==
    /\ Len(pPaths') = Cardinality(PartitionSet(df))
    /\ {[date |-> pPaths'[i].date, hour |-> pPaths'[i].hour] : i \in DOMAIN pPaths'}
          = PartitionSet(df)
    /\ DOMAIN silver' = DOMAIN silver \cup Range(pPaths')
    /\ \A k \in DOMAIN silver \ Range(pPaths') : silver'[k] = silver[k]
\* the row r is in the object of its own date and hour and in no other
InOwnPartition(r) ==
    /\ HasPartition(r)
    /\ \E i \in DOMAIN pPaths' :
          /\ Holding(r) = {i}
          /\ [date |-> pPaths'[i].date, hour |-> pPaths'[i].hour] = PartitionOf(r)

\* C20: promote_to_silver on a staged batch with rows writes one silver object
\* per distinct (date, hour) of start_time, every row of the batch is in
\* exactly the object of its own date and hour, the staging object is deleted,
\* and the reference returned is the last partition written.
C20_EveryRowInItsPartition ==
    [][(PromoteStep /\ ~EmptyCall) =>
          /\ OnePerPartition(staging[pArg'])
          /\ \A i \in DOMAIN staging[pArg'].rows : InOwnPartition(staging[pArg'].rows[i])
          /\ pArg' \notin DOMAIN staging'
          /\ pPaths' # <<>>
          /\ pRef' = pPaths'[Len(pPaths')]]_vars

\* ------------------------------------------------------ score_dataset calls
\* the cells a file can hold in each required field
ScoreCells(field) ==
    CASE field = "trip_id" -> {Ok(1), Missing}
      [] field = "bike_id" -> {Ok(7)}
      [] field = "start_time" -> {Ok(28800), Missing, Invalid}
      [] field = "end_time" -> {Ok(29100), Ok(28800), Invalid}
      [] field = "start_station_id" -> {Ok(101), Ok(999), Missing}
      [] field = "end_station_id" -> {Ok(102), Ok(101), Ok(201), Invalid}
      [] field = "rider_age" -> {Ok(28), Ok(12), Invalid}
      [] field = "trip_duration" -> {Ok(300), Ok(60), Ok(30), Ok(90000), Missing, Invalid}
      [] field = "bike_type" -> {Ok(1), Missing, Invalid}
      [] field = "member_casual" -> {Ok(1), Missing}
      [] field = "ingested_at" -> {Ok(0)}
      [] field = "source_type" -> {MissingStr}

ScoreRecords ==
    [trip_id : ScoreCells("trip_id"), bike_id : ScoreCells("bike_id"),
     start_time : ScoreCells("start_time"), end_time : ScoreCells("end_time"),
     start_station_id : ScoreCells("start_station_id"),
     end_station_id : ScoreCells("end_station_id"),
     rider_age : ScoreCells("rider_age"), trip_duration : ScoreCells("trip_duration"),
     bike_type : ScoreCells("bike_type"), member_casual : ScoreCells("member_casual"),
     ingested_at : ScoreCells("ingested_at"), source_type : ScoreCells("source_type")]

\* the columns of a file: those of an API event file, with an unexpected
\* column, and with an unexpected column but no bike_id
ScoreColumnSets ==
    {RealtimeColumns, RealtimeColumns \cup {"extra"},
     (RealtimeColumns \ {"bike_id"}) \cup {"extra"}}

\* the frame of a one-record file; a column the file lacks reads as missing
FileFrame(columns, r) ==
    [columns |-> columns,
     rows |-> <<[f \in DOMAIN r |->
                   IF f \in columns \/ f = "source_type" THEN r[f] ELSE Missing]>>]

\* the files scored together: a clean trip, a POOR trip in a file with an
\* unexpected column, a trip whose duration is text, and a trip of the next
\* hour in a file without bike_id
BatchFrames ==
    {FileFrame(RealtimeColumns, TripA),
     FileFrame(RealtimeColumns \cup {"extra"}, TripB),
     FileFrame(RealtimeColumns, [TripA EXCEPT !["trip_duration"] = Invalid]),
     FileFrame((RealtimeColumns \ {"bike_id"}) \cup {"extra"}, TripC)}

\* the files of one score_dataset call: any one-record file, or two of the
\* files scored together
ScoreInputs ==
    {<<FileFrame(c, r)>> : c \in ScoreColumnSets, r \in ScoreRecords}
    \cup {<<f, g>> : f \in BatchFrames, g \in BatchFrames}

\* score_dataset(files) with no required_source_type: an exception of
\* _score_row ends the call before anything is written (quality.py:388-407)
ScoreFiles ==
    /\ sFiles = <<>>
    /\ \E files \in ScoreInputs :
       \E loaded \in {ConcatFrames(files)} :
       \E raised \in {\E i \in DOMAIN loaded.rows :
                         ScoreRowRaises(loaded.rows[i], loaded.columns, Stations)} :
       \E payload \in {ScoreDataset(loaded, "", now)} :
          /\ sFiles' = files
          /\ sRaised' = raised
          /\ sOut' = IF raised THEN EmptyFrame ELSE payload.frame
          /\ staging' = IF raised \/ payload.staging_path = NoStaging THEN staging
                        ELSE Put(staging, payload.staging_path, payload.frame)
    /\ UNCHANGED <<storeVars, discVars, runVars, goldVars, bodies, silver, reports,
                   fpc, flowFiles, flowMetrics, flowSilverPath, flowWritten,
                   flowAggregated, crashedKeys, processedKeys, histVars, concVars,
                   manVars, histConcVars, promVars, lastBatch>>

NextScore == Tick \/ ScoreFiles

SpecScore == Init /\ [][NextScore]_vars

\* the columns of the files a scored frame was built from
InputColumns(df) == df.columns \ ScoreColumns
PoolSum(r, columns) ==
    10 * Cardinality(MissingFields(r, columns))
      + 5 * Cardinality(InvalidFields(r, columns))
      + 2 * Cardinality(UnexpectedFields(columns))

\* C21: for every scored record, whatever rule violations fire, the schema
\* penalty is at most 40, the validity penalty at most 40 and the business
\* penalty at most 20.
C21_PenaltyPoolsCapped ==
    \A i \in DOMAIN sOut.rows :
        /\ sOut.rows[i].schema_penalty \in 0..SCHEMA_MAX_DEDUCTION
        /\ sOut.rows[i].validity_penalty \in 0..VALIDITY_MAX_DEDUCTION
        /\ sOut.rows[i].business_penalty \in 0..BUSINESS_MAX_DEDUCTION

\* a record whose schema violations add up to more than the cap, with the
\* three pools at their caps
C21_Witness ==
    \E i \in DOMAIN sOut.rows :
        /\ PoolSum(sOut.rows[i], InputColumns(sOut)) > SCHEMA_MAX_DEDUCTION
        /\ sOut.rows[i].schema_penalty = SCHEMA_MAX_DEDUCTION
        /\ sOut.rows[i].validity_penalty = VALIDITY_MAX_DEDUCTION
        /\ sOut.rows[i].business_penalty = BUSINESS_MAX_DEDUCTION

\* C22: for every scored record, deductions is the sum of the three pools and
\* lies in 0..100, and quality_score is max(100 - deductions, 0) / 100 and
\* lies in [0, 1] (the model keeps quality_score times 100).
C22_DeductionsAndScore ==
    \A i \in DOMAIN sOut.rows :
        /\ sOut.rows[i].deductions
              = sOut.rows[i].schema_penalty + sOut.rows[i].validity_penalty
                  + sOut.rows[i].business_penalty
        /\ sOut.rows[i].deductions \in 0..100
        /\ sOut.rows[i].quality_score = Max(100 - sOut.rows[i].deductions, 0)
        /\ sOut.rows[i].quality_score \in 0..100

\* a record with the largest deductions, every pool at its cap, and score 0
C22_Witness ==
    \E i \in DOMAIN sOut.rows :
        /\ sOut.rows[i].deductions = 100
        /\ sOut.rows[i].quality_score = 0
        /\ sOut.rows[i].business_penalty = BUSINESS_MAX_DEDUCTION

\* the bands, best first, and the scores (times 100) each one covers
Bands == <<"EXCELLENT", "GOOD", "FAIR", "POOR">>
BandRank(b) == CHOOSE k \in DOMAIN Bands : Bands[k] = b
InBand(score, b) ==
    CASE b = "EXCELLENT" -> score >= 90
      [] b = "GOOD" -> score >= 75 /\ score < 90
      [] b = "FAIR" -> score >= 60 /\ score < 75
      [] b = "POOR" -> score < 60

\* C23: banding is total and monotonic: every score in 0..100 falls in exactly
\* one band, the one _score_band returns (>= 90 EXCELLENT, >= 75 GOOD, >= 60
\* FAIR, else POOR), and of a scored record and any record with larger
\* deductions the latter never has the better band.
C23_BandingTotalAndMonotonic ==
    /\ \A score \in 0..100 :
          {b \in Range(Bands) : InBand(score, b)} = {ScoreBand(score)}
    /\ \A i \in DOMAIN sOut.rows :
          /\ InBand(sOut.rows[i].quality_score, sOut.rows[i].quality_band)
          /\ \A deductions \in 0..100 :
                /\ deductions >= sOut.rows[i].deductions
                      => BandRank(ScoreBand(Max(BASE_SCORE - deductions, 0)))
                            >= BandRank(sOut.rows[i].quality_band)
                /\ deductions <= sOut.rows[i].deductions
                      => BandRank(ScoreBand(Max(BASE_SCORE - deductions, 0)))
                            <= BandRank(sOut.rows[i].quality_band)

\* a record scored exactly at a threshold
C23_Witness ==
    \E i \in DOMAIN sOut.rows :
        /\ sOut.rows[i].quality_score = 75
        /\ sOut.rows[i].quality_band = "GOOD"

\* what score_dataset assigns to a record
Assigned(r) ==
    [quality_score |-> r.quality_score, deductions |-> r.deductions,
     quality_band |-> r.quality_band, schema_penalty |-> r.schema_penalty,
     validity_penalty |-> r.validity_penalty, business_penalty |-> r.business_penalty]

\* C24: the score, band and penalties of a record are those it gets when its
\* file is scored alone, whatever other records are scored in the same
\* batch.
C24_ScoreIndependentOfBatch ==
    (sFiles # <<>> /\ ~sRaised) =>
        \A i \in DOMAIN sFiles :
            Assigned(sOut.rows[i]) = Assigned(ScoredFrame(sFiles[i], Stations).rows[1])

\* C25: score_dataset on a batch with rows never fails on a malformed record:
\* it completes and every record has a score, a band and a breakdown.
C25_ScoringNeverFails ==
    sFiles # <<>> =>
        /\ ~sRaised
        /\ Len(sOut.rows) = Len(sFiles)
        /\ \A i \in DOMAIN sOut.rows :
              /\ sOut.rows[i].quality_band \in Range(Bands)
              /\ sOut.rows[i].quality_score \in 0..100

\* ------------------------------------------- discovery: repeated calls
\* a step of discover_new_data
DiscoverStep == calls' = calls + 1

\* every object of the bucket was already there when an earlier call listed it
NothingLanded == \A o \in bronze : o.key \in listed

C27_AscendingAndCheckpointIsLast ==
    [][DiscoverStep =>
        /\ \A i, j \in DOMAIN lastFiles' :
              i < j => PairLT(lastFiles'[i], lastFiles'[j])
        /\ lastFiles' # <<>> =>
              /\ checkpoint'.stored
              /\ StoredPair(checkpoint') =
                    [modified |-> Last(lastFiles').modified,
                     key |-> Last(lastFiles').key]
              /\ \A i \in DOMAIN lastFiles' :
                    ~PairLT(Last(lastFiles'), lastFiles'[i])]_vars

C27_Witness ==
    /\ Len(lastFiles) >= 2
    /\ \E i, j \in DOMAIN lastFiles :
          i < j /\ lastFiles[i].modified = lastFiles[j].modified
    /\ StoredPair(checkpoint) =
          [modified |-> Last(lastFiles).modified, key |-> Last(lastFiles).key]

\* the objects of a result were all modified at or after the lookback cutoff
\* of a call made now with this window
WithinLookback(files, window_minutes) ==
    \A i \in DOMAIN files : files[i].modified >= now - window_minutes

\* C28: with no checkpoint stored, discover_new_data(window) returns only
\* objects modified within the window's lookback; once a checkpoint exists
\* the result is determined by the checkpoint alone, whatever the window.
C28_ColdStartBoundedByWindow ==
    [][\A window_minutes \in Windows :
        (DiscoverStep /\ Discover(window_minutes)) =>
            /\ ~checkpoint.stored => WithinLookback(lastFiles', window_minutes)
            /\ checkpoint.stored =>
                  lastFiles' = SortPairs(Discovered(bronze, LoadRealtimeCheckpoint(checkpoint)))]_vars

\* ------------------------------------- discovery: unreadable checkpoint
\* what can go wrong when _load_realtime_checkpoint reads the record: the
\* object is missing, the store raises, the body is not JSON, last_modified
\* is absent or empty, or it is text that datetime.fromisoformat rejects
ReadFaults == {"missing", "store_error", "invalid_json", "no_timestamp", "bad_timestamp"}

\* _load_realtime_checkpoint when the read or the parse goes wrong:
\* (None, "") from the except clauses, (None, last_key) once the JSON was read
LoadRealtimeCheckpointFault(cp, fault) ==
    IF fault \in {"missing", "store_error", "invalid_json"}
    THEN [checkpoint_time |-> -1, checkpoint_key |-> NoKey]
    ELSE [checkpoint_time |-> -1, checkpoint_key |-> cp.last_key]

\* discover_new_data, run to completion, when its checkpoint read goes wrong
DiscoverUnreadable ==
    /\ calls < MaxCalls
    /\ \E fault \in ReadFaults :
        /\ fault = "missing" => ~checkpoint.stored
        /\ fault \in {"invalid_json", "no_timestamp", "bad_timestamp"} => checkpoint.stored
        /\ \E cp \in {LoadRealtimeCheckpointFault(checkpoint, fault)} :
           \E discovered \in {SortPairs(Discovered(bronze, cp))} :
            /\ checkpoint' = CheckpointAfter(checkpoint, discovered)
            /\ lastRead' = cp
            /\ lastFiles' = discovered
            /\ listed' = listed \cup {o.key : o \in bronze}
            /\ timesReturned' =
                 [k \in Keys |->
                     IF \E o \in Range(discovered) : o.key = k
                     THEN timesReturned[k] + 1 ELSE timesReturned[k]]
            /\ calls' = calls + 1
    /\ UNCHANGED <<now, bronze, runVars, goldVars, flowVars, histVars, concVars,
                   histConcVars, promVars, lastBatch, scoreVars, manVars>>

NextRescan == Tick \/ PutBronze \/ DiscoverUnreadable

SpecRescan == Init /\ [][NextRescan]_vars

GateMetrics ==
    UNION {{[records |-> t, poor_share |-> Round4(p, t),
             staging_path |-> StagingKey("", 0)] : p \in 0..t} :
           t \in 1..MaxGateRows}

\* calculate_quality_scores has returned these metrics to the flow
GateScored ==
    /\ fpc = "idle"
    /\ \E metrics \in GateMetrics :
        /\ flowMetrics' = metrics
        /\ fpc' = "scored"
    /\ UNCHANGED <<storeVars, discVars, runVars, goldVars, bodies, staging, silver,
                   reports, flowFiles, flowSilverPath, flowWritten,
                   flowAggregated, crashedKeys, processedKeys, histVars, concVars,
                   histConcVars, promVars, lastBatch, scoreVars, manVars>>

NextGate == Tick \/ GateScored \/ FlowGate

SpecGate == Init /\ [][NextGate]_vars

\* a step in which the flow calls quality_gate(metrics)
GateStep == fpc = "scored" /\ fpc' \in {"admitted", "blocked"}

\* C30: quality_gate(metrics) is true exactly when poor_share <= 0.20, 0.20
\* itself admitted, and the call changes neither the metrics nor any store.
C30_GateAdmitsUpToOneFifth ==
    [][GateStep =>
        /\ (fpc' = "admitted") <=> (flowMetrics.poor_share <= 2000)
        /\ UNCHANGED <<flowMetrics, storeVars, goldVars, bodies, staging, silver,
                       reports>>]_vars

C30_Witness ==
    /\ fpc = "admitted"
    /\ flowMetrics.records = 5
    /\ flowMetrics.poor_share = 2000

\* --------------------------------------------------- scoring: the pools
EndpointFields == {"start_station_id", "end_station_id"}

\* the endpoint station ids of a record that are present but are not a
\* number or are not a station of the lookup
UnresolvedEndpoints(r, columns) ==
    {f \in EndpointFields :
        /\ ~IsMissing(r, columns, f)
        /\ (r[f].kind = "invalid" \/ r[f].v \notin Stations)}

\* the record with no endpoint station ids
WithoutEndpoints(r) ==
    [r EXCEPT !["start_station_id"] = Missing, !["end_station_id"] = Missing]

\* C31: the validity pool of a scored record is what the record gets without
\* its endpoint station ids plus 10 for each endpoint station id that is
\* present but not numeric or not in the station lookup, capped at 40.
C31_TenPerUnresolvedEndpoint ==
    \A i \in DOMAIN sOut.rows :
        sOut.rows[i].validity_penalty =
            Min(ValidityPenalty(WithoutEndpoints(sOut.rows[i]), InputColumns(sOut), Stations)
                  + 10 * Cardinality(UnresolvedEndpoints(sOut.rows[i], InputColumns(sOut))),
                VALIDITY_MAX_DEDUCTION)

\* the required fields of a record that are missing, and those that are
\* present with a value of the wrong type, read off the record itself
MissingCount(r, columns) ==
    Cardinality({f \in Range(REQUIRED_FIELDS) : f \notin columns \/ r[f].kind = "missing"})
WrongTypeCount(r, columns) ==
    Cardinality({f \in Range(REQUIRED_FIELDS) : f \in columns /\ r[f].kind = "invalid"})

\* C32: the schema pool of a scored record is min(40, 10 * missing required
\* fields + 5 * required fields present with the wrong type + 2 * column
\* names outside the allowed set), and no field counts as both missing and
\* wrong-typed.
C32_SchemaPoolFormula ==
    \A i \in DOMAIN sOut.rows :
        /\ sOut.rows[i].schema_penalty =
              Min(10 * MissingCount(sOut.rows[i], InputColumns(sOut))
                    + 5 * WrongTypeCount(sOut.rows[i], InputColumns(sOut))
                    + 2 * Cardinality(InputColumns(sOut) \ ALLOWED_FIELDS),
                  SCHEMA_MAX_DEDUCTION)
        /\ MissingFields(sOut.rows[i], InputColumns(sOut))
              \cap InvalidFields(sOut.rows[i], InputColumns(sOut)) = {}

\* a record with a missing field, a wrong-typed field and an unexpected
\* column, below the cap
C32_Witness ==
    \E i \in DOMAIN sOut.rows :
        /\ MissingCount(sOut.rows[i], InputColumns(sOut)) = 1
        /\ WrongTypeCount(sOut.rows[i], InputColumns(sOut)) = 1
        /\ "extra" \in InputColumns(sOut)
        /\ sOut.rows[i].schema_penalty = 17

\* the firehose's "missing_fields" event (firehose.py:32-34): bike_type is
\* missing, end_time equals start_time, every other required field is there
\* with a value of its type, a rider of 16..100 and stations of the lookup,
\* and the file has no column outside the allowed set
ScenarioB(r, columns) ==
    /\ columns \subseteq ALLOWED_FIELDS
    /\ Range(REQUIRED_FIELDS) \subseteq columns
    /\ r["bike_type"].kind = "missing"
    /\ \A f \in Range(REQUIRED_FIELDS) \ {"bike_type"} : r[f].kind = "ok"
    /\ r["end_time"].v = r["start_time"].v
    /\ r["rider_age"].v \in 16..100
    /\ r["start_station_id"].v \in Stations
    /\ r["end_station_id"].v \in Stations

RunStatuses == {"empty", "blocked", "completed", "error"}

\* C34: every streaming run that has ended, ended with a run result whose
\* status is empty, blocked, completed or error; a failure of a stage is a
\* result with status error, never an exception leaving the flow.
C34_RunEndsWithStatus ==
    (FlowEnded /\ fpc # "idle") => fpc \in RunStatuses

\* ------------------------------------------------- manifest: staged keys
\* C35: in the persisted manifest every entry with status pending records a
\* staged key, the key its archive was staged under, and every entry with
\* status processed has its staged key cleared.
C35_StagedKeyFollowsStatus ==
    \A a \in DOMAIN manifest :
        /\ manifest[a].status = "pending" =>
              /\ manifest[a].staged_key # NoStagedKey
              /\ manifest[a].staged_key.slug = a
        /\ manifest[a].status = "processed" =>
              manifest[a].staged_key = NoStagedKey

C35_Witness ==
    /\ \E a \in DOMAIN manifest : manifest[a].status = "pending"
    /\ \E a \in DOMAIN manifest : manifest[a].status = "processed"

\* ---------------------------------------------- staging: one row per trip
\* the trip ids of a staged batch occur once each
OneRowPerTrip(df) ==
    \A i, j \in DOMAIN df.rows :
        df.rows[i]["trip_id"] = df.rows[j]["trip_id"] => i = j

\* C36: the batch staged for an archive holds at most one row per trip_id,
\* duplicates across the CSV members of the archive included.
C36_StagedBatchOneRowPerTrip ==
    \A k \in DOMAIN pending : OneRowPerTrip(pending[k])

\* ------------------------------------------ promotion: the staging object
\* C37: promote_to_silver deletes the staging object only if it wrote at
\* least one silver partition: after a call on a staged object that wrote no
\* partition, the staging object is still there.
C37_StagingKeptWhenNothingWritten ==
    [][(PromoteStep /\ pArg' # NoStaging /\ pPaths' = <<>>) =>
          pArg' \in DOMAIN staging']_vars

\* ------------------------------------------- historical runs, repeated
\* validate_historical_batches as the first task of one more run, with every
\* download succeeding and the manifest readable
ValidateRepeated ==
    /\ HistEnded
    /\ \E out \in {StageAll([manifest |-> LoadArchiveManifest(TRUE),
                             pending |-> pending, staged_files |-> <<>>,
                             invalid_archives |-> <<>>],
                            Archives, {}, now)} :
           /\ manifest' = IF out.staged_files # <<>> THEN out.manifest ELSE manifest
           /\ pending' = out.pending
           /\ histValid' = SortStaged(DOMAIN pending \cup Range(out.staged_files))
           /\ histInvalid' = out.invalid_archives
           /\ histStaged' = StagedArchives(out)
           /\ stagings' = StagingsAfter(out)
    /\ hpc' = "validated"
    /\ histBronze' = <<>>
    /\ histMetrics' = EmptyMetrics
    /\ histWritten' = <<>>
    /\ histAggregated' = EmptyFrame
    /\ UNCHANGED <<storeVars, discVars, runVars, goldVars, flowVars, processed,
                   histRuns, manifestOk, readFailures, histFailing, histCancelled,
                   concVars, histConcVars, promVars, lastBatch, scoreVars>>

\* load_historical_to_bronze(valid_files) stopped after it moved the staged
\* object of its k-th file to processed/ (historical.py:366) and before it
\* persisted the manifest (historical.py:372)
LoadInterrupted ==
    /\ hpc = "validated"
    /\ \E k \in 1..Len(histValid) :
       \E out \in {LoadAll([manifest |-> LoadArchiveManifest(TRUE),
                            pending |-> pending, processed |-> processed,
                            bronze |-> bronze, bodies |-> bodies,
                            bronze_paths |-> <<>>],
                           SubSeq(histValid, 1, k), now)} :
          /\ pending' = out.pending
          /\ processed' = out.processed
          /\ bronze' = out.bronze
          /\ bodies' = out.bodies
    /\ hpc' = "interrupted"
    /\ UNCHANGED <<now, checkpoint, discVars, runVars, goldVars, staging, silver,
                   reports, fpc, flowFiles, flowMetrics, flowSilverPath, flowWritten,
                   flowAggregated, crashedKeys, processedKeys, manifest, histRuns,
                   histValid, histBronze, histMetrics, histWritten, histAggregated,
                   manVars, concVars, histConcVars, promVars, lastBatch, scoreVars>>

NextHistLive ==
    \/ Tick
    \/ ValidateRepeated
    \/ LoadHistoricalToBronze
    \/ LoadInterrupted
    \/ ProcessHistoricalToSilver

\* the position of the run moves on: a new run starts, the load task
\* returns, the process task returns
RunStarts == HistEnded /\ hpc' = "validated"
LoadReturns == hpc = "validated" /\ hpc' = "loaded"
ProcessReturns == hpc = "loaded" /\ hpc' = "done"

\* the runs are repeated, and a task that is not stopped returns; within
\* NextHistLive the three steps are those of ValidateRepeated,
\* LoadHistoricalToBronze and ProcessHistoricalToSilver
SpecHistLive ==
    /\ Init /\ [][NextHistLive]_vars
    /\ WF_hpc(RunStarts)
    /\ WF_hpc(LoadReturns)
    /\ WF_hpc(ProcessReturns)

IsPending(a) == a \in DOMAIN manifest /\ manifest[a].status = "pending"
IsProcessed(a) == a \in DOMAIN manifest /\ manifest[a].status = "processed"

\* C38: under repeated historical runs every archive whose manifest status
\* is pending eventually reaches processed, also after a load run that was
\* stopped between moving the staged object and persisting the manifest.
C38_PendingEventuallyProcessed ==
    \A a \in ArchiveNames : IsPending(a) ~> IsProcessed(a)

\* ------------------------------------------------ gold: rows left alone
\* a step of update_gold_tables on a partition file, and the file
GoldStep == lastBatch' # lastBatch
GoldBatch == IF FrameEmpty(lastBatch) THEN lastBatch' ELSE lastBatch

\* the stored rows of table t whose (source_type, key) is not in the rollup
\* of df
Untouched(tables, df, t) ==
    {r \in Range(tables[GoldTables[t]]) :
        \A j \in DOMAIN Rollup(df, t) : ~IndexEq(r, Rollup(df, t)[j], IndexCols(t))}

\* C39: update_gold_tables leaves every stored gold row whose (source_type,
\* key) is not in the rollup of the incoming batch as it was; in particular a
\* row of another source type than the batch's is neither changed nor
\* removed.
C39_OtherRowsLeftAlone ==
    [][GoldStep =>
        \A t \in DOMAIN GoldTables :
            /\ Untouched(gold, GoldBatch, t) \subseteq Range(gold'[GoldTables[t]])
            /\ \A r \in Range(gold[GoldTables[t]]) :
                  (\A i \in DOMAIN GoldBatch.rows :
                      SourceTypeOf(GoldBatch, GoldBatch.rows[i]).v # r.source_type)
                  => r \in Range(gold'[GoldTables[t]])]_vars

\* a batch was aggregated onto stored rows of another source type
C39_Witness ==
    /\ aggCount = 2
    /\ ~FrameEmpty(lastBatch)
    /\ \E r, s \in Range(gold.station_status) :
          /\ r.source_type # s.source_type
          /\ r \in Untouched(gold, lastBatch, 1)
          /\ s \notin Untouched(gold, lastBatch, 1)

\* ------------------------------------------- scoring: schema faults only
\* the record has no validity and no business penalty
SchemaOnly(r) == r.validity_penalty = 0 /\ r.business_penalty = 0

\* C40: a scored record whose validity and business penalties are both 0 has
\* a score of at least 0.60 (60 here) and is never banded POOR, whatever its
\* schema violations; a batch of such records has poor_share 0.
C40_SchemaAloneNeverPoor ==
    /\ \A i \in DOMAIN sOut.rows :
          SchemaOnly(sOut.rows[i]) =>
              /\ sOut.rows[i].quality_score >= 60
              /\ sOut.rows[i].quality_band # "POOR"
    /\ (\A i \in DOMAIN sOut.rows : SchemaOnly(sOut.rows[i])) => PoorShare(sOut) = 0

\* a record whose schema violations add up to more than the cap, with no
\* other penalty: banded FAIR
C40_Witness ==
    \E i \in DOMAIN sOut.rows :
        /\ SchemaOnly(sOut.rows[i])
        /\ PoolSum(sOut.rows[i], InputColumns(sOut)) >= 60
        /\ sOut.rows[i].schema_penalty = SCHEMA_MAX_DEDUCTION
        /\ sOut.rows[i].quality_score = 60
        /\ sOut.rows[i].quality_band = "FAIR"

====
